---- MODULE Spec2Model ----
(***************************************************************************)
(* A model of the ralph orchestrator's multi-loop coordinator              *)
(* (ralph-cli/src/main.rs: run_command, clean_command) and of the loop     *)
(* controller that run_command drives.                                     *)
(*                                                                         *)
(* Spec      : processes running `run`, `run --exclusive` and `clean`      *)
(*             against one repository, interleaved at every access to the  *)
(*             shared files (.ralph/loop.lock, .worktrees, loops.json).    *)
(* FairSpec  : `run` and `run --exclusive` processes with parallel loops    *)
(*             disabled, with the fairness of the lock poll.                *)
(* LoopSpec  : one primary loop, iteration by iteration.                   *)
(* FairLoopSpec : LoopSpec with the fairness of subprocess exit, timers    *)
(*             and the controller's own steps.                             *)
(* WorktreeSpec : contenders of a running primary loop, as worktree loops. *)
(* RestartSpec : one loop and the processes that replace it on restart.    *)
(* ArgsSpec  : the argument vector across an exec-restart.                 *)
(* JournalSpec, EventsSpec : the event journal under `emit`, the loop's    *)
(*             appends, `events` and `events --clear`.                     *)
(* WaitSpec, FairWaitSpec : TelegramService::wait_for_response polling the *)
(*             journal while it is appended to.                            *)
(* QuestionSpec, AskSpec : send_question followed by the wait.             *)
(* TailSpec  : check_for_response called repeatedly on one position.       *)
(* RouterSpec, InputSpec : the event router and the TUI's InputRouter.     *)
(* ContinueSpec, DrySpec : `run --continue` and `run --dry-run`.           *)
(* TermSpec  : the terminal under main's panic hook and the TUI's App::run. *)
(* RootSpec  : find_workspace_root.                                        *)
(* DiskSpec  : `emit` and the events files it creates.                     *)
(***************************************************************************)
EXTENDS Naturals, Integers, Sequences, FiniteSets, TLC

\* ------------------------------------------------------------- bounds
NumProcs == 3        \* `run` processes that may be started against the repository
NumCleaners == 1     \* `clean` processes that may be started
NumNames == 2        \* memorable loop names the generator can draw
MaxRestarts == 1     \* restart requests honoured in one behaviour
MaxIterations == 5   \* event_loop.max_iterations of the modelled loop
MaxArgs == 3         \* longest argument vector of a restarting process
NumEmitters == 2     \* `emit` processes that may run against the journal
MaxLoopAppends == 1  \* events the loop itself appends in one behaviour
TimeoutSecs == 2     \* timeout_secs of the waiting TelegramService
NumTasks == 1        \* task IDs in the task ledger
MaxLedger == 2       \* records appended to the task ledger in one behaviour
NumHats == 2         \* hats of the configuration
QueueCap == 2        \* capacity of a hat's ready queue
MaxKeys == 3         \* keys routed by the InputRouter in one behaviour
NumDirNames == 2     \* directory names of the modelled file system
MaxDepth == 2        \* depth of its deepest directory
MaxGit == 2          \* directories of it that hold a `.git`

Procs == 1 .. NumProcs
Cleaners == 1 .. NumCleaners
Names == 1 .. NumNames
NoProc == 0
NoName == 0
NoCode == -1

\* Consecutive failed iterations after which the loop aborts.
MaxConsecutiveFailures == 3

\* ------------------------------------------------------------- state
VARIABLES
    \* shared files of the repository
    lockFile,      \* .ralph/loop.lock: NoProc when absent, else the recorded PID
    worktrees,     \* names n for which .worktrees/<n> exists
    registry,      \* names registered in .ralph/loops.json
    agentDir,      \* whether the scratchpad's parent directory exists
    parallel,      \* config.features.parallel
    restarts,      \* exec-replacements done so far
    \* per `run` process
    pc,            \* position in run_command
    exclusive,     \* args.exclusive
    guard,         \* the process owns a LockGuard (_lock_guard is Some)
    role,          \* "none" | "primary" | "worktree" (LoopContext)
    waitedFor,     \* PID reported by AlreadyLocked to a process that then blocked
    wtName,        \* the generated loop_id, or NoName
    pendingReg,    \* pending_worktree_registration is Some
    exitCode,      \* process exit status, NoCode while there is none
    sigterm,       \* SIGTERM was delivered to the process while its loop ran
    \* per `clean` process
    cpc,           \* position in clean_command
    dryRun,        \* args.dry_run
    \* the loop controller of the loop driven in LoopSpec
    lstate,        \* controller state
    iteration,     \* agent activations started so far
    completed,     \* agent activations that ran to their end
    agentRunning,  \* an agent subprocess is running
    fails,         \* consecutive failed iterations
    stopMarker,    \* .ralph/stop-requested exists
    restartMarker, \* .ralph/restart-requested exists
    lreason,       \* reason chosen by the controller, or "None"
    loopEnds,      \* loop.end events in the journal
    hist,          \* per completed iteration: promise found in the output
    stopDuring,    \* iteration during which the stop marker appeared, or 0
    otherCause,    \* a runtime cap, idle timeout, third failure or error occurred
    markerSeen,    \* a stop or restart marker was written at some time
    timedOut,      \* a human.interact question timed out at some time
    \* the argument vector across a restart
    origArgs,      \* argv of the process that restarts
    execArgs,      \* argv handed to exec()
    rpc,           \* "none" | "running" | "replaced" | "panicked" | "failed"
    \* the event journal and the `emit` and `events` commands
    files,         \* content of each journal file, a sequence of written pieces
    marker,        \* path held by .ralph/current-events, NoFile when absent
    epc,           \* position of each `emit` process in emit_command
    eargs,         \* its arguments: topic, payload, --json, --file
    erec,          \* the record it built
    etarget,       \* the file it resolved
    appended,      \* per file: the events appended since it was started, in order
    shown,         \* what the last `events` listed, and for which --file
    \* wait_for_response
    now,           \* the clock, in seconds
    wpc,           \* "idle" | "check" | "poll" | "sleep" | "returned"
    deadline,      \* Instant::now() + timeout at the start of the wait
    filePos,       \* file_pos
    wresult,       \* what wait_for_response returned
    wbase,         \* length of the events file when the wait began
    wlen,          \* its length when the clock reached the deadline or the
                   \* wait returned, whichever came first
    \* .ralph/telegram-state.json and send_question
    pendingQ,      \* loop IDs that have a pending question
    chatId,        \* a chat ID is configured
    qres,          \* send_question: "none" | "ok" (message ID 0) | "err"
    \* what the agent leaves behind for the completion detector
    ledger,        \* .ralph/agent/tasks.jsonl: the records appended, in order
    scratchPending, \* the scratchpad has `- [ ]` lines
    \* the hat registry and the event router
    hatSubs,       \* per hat: its subscription patterns
    hatPubs,       \* per hat: its publication set
    coalesce,      \* coalescing of identical topics is enabled
    queues,        \* per hat: its ready queue, the topics that triggered it
    active,        \* the hat whose activation runs, NoHat when none does
    lastPub,       \* the last publish: topic, emitting hat, outcome
    \* `run --continue`
    continueMode,  \* per `run` process: args.continue_mode
    scratchpadFile, \* config.core.scratchpad exists
    \* the TUI's InputRouter
    mode,          \* InputRouter::mode
    keyLog,        \* the keys routed so far, each with its RouteResult
    \* the terminal, the panic hook and the TUI's App::run
    tpc,           \* where main and the TUI task are
    rawMode,       \* the terminal is in raw mode
    altScreen,     \* the terminal shows the alternate screen
    cursorShown,   \* the cursor is visible
    panicHook,     \* the process's panic hook and the hooks it calls, in order
    hookLog,       \* what a running panic hook has done so far, in order
    runResult,     \* what App::run returned: "none" | "ok" | "err"
    \* check_for_response called again and again on one position
    got,           \* the responses the calls returned, in order
    \* find_workspace_root
    cwd,           \* per invocation: std::env::current_dir()
    gitAt,         \* the directories that hold a `.git`
    wsRoot,        \* per invocation: what find_workspace_root returned
    \* `run --dry-run`
    runDry,        \* per `run` process: args.dry_run
    \* the events files on disk
    jdir,          \* the events files whose parent directory exists
    jfile,         \* the events files that exist
    opened         \* the `emit` processes that have opened their events file

sharedVars == <<lockFile, worktrees, registry, agentDir, parallel, restarts>>
procVars == <<pc, exclusive, guard, role, waitedFor, wtName, pendingReg,
              exitCode, sigterm>>
cleanVars == <<cpc, dryRun>>
loopVars == <<lstate, iteration, completed, agentRunning, fails, stopMarker,
              restartMarker, lreason, loopEnds, hist, stopDuring, otherCause,
              markerSeen, timedOut>>
argVars == <<origArgs, execArgs, rpc>>
journalVars == <<files, marker, epc, eargs, erec, etarget, appended, shown>>
waitVars == <<now, wpc, deadline, filePos, wresult, wbase, wlen, pendingQ,
             chatId, qres>>
workVars == <<ledger, scratchPending>>
routerVars == <<hatSubs, hatPubs, coalesce, queues, active, lastPub>>
resumeVars == <<continueMode, scratchpadFile>>
inputVars == <<mode, keyLog>>
termVars == <<tpc, rawMode, altScreen, cursorShown, panicHook, hookLog,
             runResult>>
tailVars == <<got>>
rootVars == <<cwd, gitAt, wsRoot>>
dryVars == <<runDry>>
diskVars == <<jdir, jfile, opened>>
moreVars == <<termVars, tailVars, rootVars, dryVars, diskVars>>
extVars == <<workVars, routerVars, resumeVars, inputVars, moreVars>>
\* Everything but one group of variables.
exceptWork == <<sharedVars, procVars, cleanVars, loopVars, argVars, journalVars,
               waitVars, routerVars, resumeVars, inputVars, moreVars>>
exceptRouter == <<sharedVars, procVars, cleanVars, loopVars, argVars,
                 journalVars, waitVars, workVars, resumeVars, inputVars,
                 moreVars>>
exceptInput == <<sharedVars, procVars, cleanVars, loopVars, argVars,
                journalVars, waitVars, workVars, routerVars, resumeVars,
                moreVars>>
exceptTerm == <<sharedVars, procVars, cleanVars, loopVars, argVars,
               journalVars, waitVars, workVars, routerVars, resumeVars,
               inputVars, tailVars, rootVars, dryVars, diskVars>>
ioVars == <<argVars, journalVars, waitVars, extVars>>
vars == <<sharedVars, procVars, cleanVars, loopVars, ioVars>>

Reasons == {"CompletionPromiseMet", "MaxIterations", "MaxRuntime", "IdleTimeout",
            "StopRequested", "RestartRequested", "SubprocessFailed",
            "UnrecoverableError"}

\* A process exists (its PID answers kill(pid, 0)) from its start to its exit.
Dead == {"idle", "exited", "failed", "preflight_failed", "continue_failed",
         "killed"}

pid_alive(p) == pc[p] \notin Dead

\* ------------------------------------------------- TerminationReason
exit_code(r) ==
    CASE r = "CompletionPromiseMet" -> 0
      [] r = "UnrecoverableError" -> 1
      [] r \in {"MaxIterations", "MaxRuntime", "IdleTimeout"} -> 2
      [] r = "StopRequested" -> 3
      [] r = "RestartRequested" -> 0
      [] r = "SubprocessFailed" -> 4

\* ------------------------------------------------------------ LoopLock
\* The lock file can be taken: it is absent, or the PID it records is dead.
LockFree == IF lockFile = NoProc THEN TRUE ELSE ~pid_alive(lockFile)

\* LoopLock::try_acquire succeeding: the file now records the caller.
LockTake(p) ==
    /\ LockFree
    /\ lockFile' = p

\* Drop of the LockGuard: the file is unlinked.
GuardDrop(p) == lockFile' = IF guard[p] THEN NoProc ELSE lockFile

\* ------------------------------------------------------- process end
\* The process is gone: its memory (flags, guard variable, context) with it;
\* what remains is its exit status, whether it exited on a SIGTERM, and
\* whatever it left in the repository.
Gone(p, st, code) ==
    /\ pc' = [pc EXCEPT ![p] = st]
    /\ exitCode' = [exitCode EXCEPT ![p] = code]
    /\ exclusive' = [exclusive EXCEPT ![p] = FALSE]
    /\ guard' = [guard EXCEPT ![p] = FALSE]
    /\ role' = [role EXCEPT ![p] = "none"]
    /\ waitedFor' = [waitedFor EXCEPT ![p] = NoProc]
    /\ wtName' = [wtName EXCEPT ![p] = NoName]
    /\ pendingReg' = [pendingReg EXCEPT ![p] = FALSE]
    /\ sigterm' = [sigterm EXCEPT ![p] = sigterm[p] /\ st = "exited"]

\* An error returned by run_command to main (`?`, bail!): exit status 1.
\* The locals of run_command are dropped on the way, the guard with them.
ReturnErr(p) ==
    /\ Gone(p, "failed", 1)
    /\ GuardDrop(p)

\* return Err(err) after a failed preflight: as ReturnErr, the error being the
\* preflight's.
ReturnPreflightErr(p) ==
    /\ Gone(p, "preflight_failed", 1)
    /\ GuardDrop(p)

\* Ok(()) returned to main: locals are dropped, the process exits with 0.
ReturnOk(p) ==
    /\ Gone(p, "exited", 0)
    /\ GuardDrop(p)

\* std::process::exit(code): the process ends at once, no destructor runs.
ProcessExit(p, code) ==
    /\ Gone(p, "exited", code)
    /\ UNCHANGED lockFile

\* A step of run_command that touches only its position.
Advance(p, to) ==
    /\ pc' = [pc EXCEPT ![p] = to]
    /\ UNCHANGED <<exclusive, guard, role, waitedFor, wtName, pendingReg,
                   exitCode, sigterm>>

\* ------------------------------------------------------- run_command
\* Processes are started in PID order.
InOrder(p) == IF p = 1 THEN TRUE ELSE pc[p - 1] # "idle"

\* `ralph run [--exclusive]` is started.
Launch(p, ex) ==
    /\ pc[p] = "idle"
    /\ InOrder(p)
    /\ pc' = [pc EXCEPT ![p] = "start"]
    /\ exclusive' = [exclusive EXCEPT ![p] = ex]
    /\ UNCHANGED <<guard, role, waitedFor, wtName, pendingReg, exitCode, sigterm>>
    /\ UNCHANGED <<sharedVars, cleanVars, loopVars, ioVars>>

\* `ralph run [--exclusive] [--continue]` is started: the configuration is
\* loaded, normalized and overridden.
LaunchRun(p, ex, cont) ==
    /\ pc[p] = "idle"
    /\ InOrder(p)
    /\ pc' = [pc EXCEPT ![p] = "config"]
    /\ exclusive' = [exclusive EXCEPT ![p] = ex]
    /\ continueMode' = [continueMode EXCEPT ![p] = cont]
    /\ UNCHANGED <<guard, role, waitedFor, wtName, pendingReg, exitCode, sigterm>>
    /\ UNCHANGED scratchpadFile
    /\ UNCHANGED <<sharedVars, cleanVars, loopVars, argVars, journalVars,
                   waitVars, workVars, routerVars, inputVars, moreVars>>

\* bail!("Cannot continue: scratchpad not found at ..."): as ReturnErr.
ReturnNoScratchpad(p) ==
    /\ Gone(p, "continue_failed", 1)
    /\ GuardDrop(p)

\* Variant: --continue goes on without looking for the scratchpad.
ResumeCheckSkipped(p) ==
    /\ pc[p] = "config"
    /\ Advance(p, "start")
    /\ UNCHANGED <<worktrees, registry, agentDir, parallel, restarts, lockFile>>
    /\ UNCHANGED <<cleanVars, loopVars, ioVars>>

\* --continue mode: the scratchpad must exist before run_command proceeds.
ResumeCheck(p) ==
    /\ pc[p] = "config"
    /\ IF continueMode[p] /\ ~scratchpadFile
         THEN ReturnNoScratchpad(p)
         ELSE /\ Advance(p, "start")
              /\ UNCHANGED lockFile
    /\ UNCHANGED <<worktrees, registry, agentDir, parallel, restarts>>
    /\ UNCHANGED <<cleanVars, loopVars, ioVars>>

\* `ralph run --dry-run [--continue]` is started: as LaunchRun, with
\* args.dry_run set.
LaunchDryRun(p, cont) ==
    /\ pc[p] = "idle"
    /\ InOrder(p)
    /\ pc' = [pc EXCEPT ![p] = "config"]
    /\ continueMode' = [continueMode EXCEPT ![p] = cont]
    /\ runDry' = [runDry EXCEPT ![p] = TRUE]
    /\ UNCHANGED <<exclusive, guard, role, waitedFor, wtName, pendingReg,
                   exitCode, sigterm>>
    /\ UNCHANGED scratchpadFile
    /\ UNCHANGED <<sharedVars, cleanVars, loopVars, argVars, journalVars,
                   waitVars, workVars, routerVars, inputVars, termVars,
                   tailVars, rootVars, diskVars>>

\* Variant: the dry-run branch placed after ensure_scratchpad_directory.
DryRunAfterScratchpad(p, passed) ==
    /\ pc[p] = "start"
    /\ runDry[p]
    /\ agentDir' = TRUE
    /\ ReturnOk(p)
    /\ UNCHANGED <<worktrees, registry, parallel, restarts>>
    /\ UNCHANGED <<cleanVars, loopVars, ioVars>>

\* if args.dry_run { ... return Ok(()) }: the preflight report (passed or
\* not: in DryRun mode run_auto_preflight returns it as Ok) and the
\* configuration are printed.
DryRun(p, passed) ==
    /\ pc[p] = "start"
    /\ runDry[p]
    /\ ReturnOk(p)
    /\ UNCHANGED <<worktrees, registry, agentDir, parallel, restarts>>
    /\ UNCHANGED <<cleanVars, loopVars, ioVars>>

\* The agent of a running loop writes the scratchpad.
ScratchpadWritten(p) ==
    /\ pc[p] = "loop"
    /\ agentDir
    /\ ~scratchpadFile
    /\ scratchpadFile' = TRUE
    /\ UNCHANGED continueMode
    /\ UNCHANGED <<sharedVars, procVars, cleanVars, loopVars, argVars,
                   journalVars, waitVars, workVars, routerVars, inputVars,
                   moreVars>>

\* ensure_scratchpad_directory
EnsureScratchpadDirectory(p) ==
    /\ pc[p] = "start"
    /\ agentDir' = TRUE
    /\ Advance(p, "acquire")
    /\ UNCHANGED <<lockFile, worktrees, registry, parallel, restarts>>
    /\ UNCHANGED <<cleanVars, loopVars, ioVars>>

\* Without --dry-run run_command goes on to ensure_scratchpad_directory.
RunProper(p) ==
    /\ ~runDry[p]
    /\ EnsureScratchpadDirectory(p)

\* Ok(guard): the process is the primary loop.
BecomePrimary(p) ==
    /\ guard' = [guard EXCEPT ![p] = TRUE]
    /\ role' = [role EXCEPT ![p] = "primary"]
    /\ pc' = [pc EXCEPT ![p] = "dirs"]
    /\ UNCHANGED <<exclusive, waitedFor, wtName, pendingReg, exitCode, sigterm>>

\* --exclusive: go on to LoopLock::acquire_blocking.
WaitForLock(p) ==
    /\ pc' = [pc EXCEPT ![p] = "blocked"]
    /\ waitedFor' = [waitedFor EXCEPT ![p] = lockFile]
    /\ UNCHANGED <<exclusive, guard, role, wtName, pendingReg, exitCode, sigterm>>

\* Variant: the branch without its --exclusive arm.
OnAlreadyLockedNoExclusive(p) ==
    IF ~parallel
    THEN Gone(p, "failed", 1)
    ELSE Advance(p, "genid")

\* The three-way branch on AlreadyLocked(existing).
OnAlreadyLocked(p) ==
    IF exclusive[p]
    THEN WaitForLock(p)
    ELSE IF ~parallel
    THEN Gone(p, "failed", 1)
    ELSE Advance(p, "genid")

\* LoopLock::try_acquire and the match on its result.
TryAcquire(p) ==
    /\ pc[p] = "acquire"
    /\ IF LockFree
         THEN /\ LockTake(p)
              /\ BecomePrimary(p)
         ELSE /\ OnAlreadyLocked(p)
              /\ UNCHANGED lockFile
    /\ UNCHANGED <<worktrees, registry, agentDir, parallel, restarts>>
    /\ UNCHANGED <<cleanVars, loopVars, ioVars>>

\* Variant: a poll that waits for the file to disappear and never takes over
\* a lock whose recorded PID is dead.
AcquireBlockingNoStale(p) ==
    /\ pc[p] = "blocked"
    /\ lockFile = NoProc
    /\ lockFile' = p
    /\ BecomePrimary(p)
    /\ UNCHANGED <<worktrees, registry, agentDir, parallel, restarts>>
    /\ UNCHANGED <<cleanVars, loopVars, ioVars>>

\* LoopLock::acquire_blocking: the poll that finds the lock free.
AcquireBlocking(p) ==
    /\ pc[p] = "blocked"
    /\ LockTake(p)
    /\ BecomePrimary(p)
    /\ UNCHANGED <<worktrees, registry, agentDir, parallel, restarts>>
    /\ UNCHANGED <<cleanVars, loopVars, ioVars>>

\* generate_memorable_unique with worktree_exists as the taken-test.
GenerateName(p, n) ==
    /\ pc[p] = "genid"
    /\ n \notin worktrees
    /\ wtName' = [wtName EXCEPT ![p] = n]
    /\ pc' = [pc EXCEPT ![p] = "mkworktree"]
    /\ UNCHANGED <<exclusive, guard, role, waitedFor, pendingReg, exitCode, sigterm>>
    /\ UNCHANGED <<sharedVars, cleanVars, loopVars, ioVars>>

\* ensure_gitignore and create_worktree; io is whether the file system obliges.
CreateWorktree(p, io) ==
    /\ pc[p] = "mkworktree"
    /\ IF io /\ wtName[p] \notin worktrees
         THEN /\ worktrees' = worktrees \cup {wtName[p]}
              /\ role' = [role EXCEPT ![p] = "worktree"]
              /\ pc' = [pc EXCEPT ![p] = "setup"]
              /\ UNCHANGED <<exclusive, guard, waitedFor, wtName, pendingReg,
                             exitCode, sigterm>>
         ELSE /\ Gone(p, "failed", 1)
              /\ UNCHANGED worktrees
    /\ UNCHANGED <<lockFile, registry, agentDir, parallel, restarts>>
    /\ UNCHANGED <<cleanVars, loopVars, ioVars>>

\* Variant: the worktree branch handing a guard on to the rest of run_command.
WorktreeSetupWithGuard(p, io) ==
    /\ pc[p] = "setup"
    /\ IF io
         THEN /\ pendingReg' = [pendingReg EXCEPT ![p] = TRUE]
              /\ guard' = [guard EXCEPT ![p] = TRUE]
              /\ pc' = [pc EXCEPT ![p] = "dirs"]
              /\ UNCHANGED <<exclusive, role, waitedFor, wtName, exitCode, sigterm>>
         ELSE Gone(p, "failed", 1)
    /\ UNCHANGED <<sharedVars, cleanVars, loopVars, ioVars>>

\* setup_worktree_symlinks, generate_context_file, then the pending entry.
WorktreeSetup(p, io) ==
    /\ pc[p] = "setup"
    /\ IF io
         THEN /\ pendingReg' = [pendingReg EXCEPT ![p] = TRUE]
              /\ pc' = [pc EXCEPT ![p] = "dirs"]
              /\ UNCHANGED <<exclusive, guard, role, waitedFor, wtName,
                             exitCode, sigterm>>
         ELSE Gone(p, "failed", 1)
    /\ UNCHANGED <<sharedVars, cleanVars, loopVars, ioVars>>

\* loop_context.ensure_directories()
EnsureDirectories(p, io) ==
    /\ pc[p] = "dirs"
    /\ IF io
         THEN /\ Advance(p, "preflight")
              /\ UNCHANGED lockFile
         ELSE ReturnErr(p)
    /\ UNCHANGED <<worktrees, registry, agentDir, parallel, restarts>>
    /\ UNCHANGED <<cleanVars, loopVars, ioVars>>

\* Variant: the pending entry is registered before the preflight is run.
PreflightAfterRegister(p, passed, rm) ==
    /\ pc[p] = "preflight"
    /\ registry' = IF pendingReg[p] THEN registry \cup {wtName[p]} ELSE registry
    /\ IF passed
         THEN /\ Advance(p, "loop")
              /\ UNCHANGED <<lockFile, worktrees>>
         ELSE /\ ReturnPreflightErr(p)
              /\ worktrees' = IF role[p] # "primary" /\ rm
                                 THEN worktrees \ {wtName[p]}
                                 ELSE worktrees
    /\ UNCHANGED <<agentDir, parallel, restarts>>
    /\ UNCHANGED <<cleanVars, loopVars, ioVars>>

\* run_auto_preflight; on failure a worktree loop removes its worktree
\* (rm: whether remove_worktree succeeds) and the error is returned.
Preflight(p, passed, rm) ==
    /\ pc[p] = "preflight"
    /\ IF passed
         THEN /\ Advance(p, IF pendingReg[p] THEN "register" ELSE "loop")
              /\ UNCHANGED <<lockFile, worktrees>>
         ELSE /\ ReturnPreflightErr(p)
              /\ worktrees' = IF role[p] # "primary" /\ rm
                                 THEN worktrees \ {wtName[p]}
                                 ELSE worktrees
    /\ UNCHANGED <<registry, agentDir, parallel, restarts>>
    /\ UNCHANGED <<cleanVars, loopVars, ioVars>>

\* LoopRegistry::register of the pending entry.
Register(p, io) ==
    /\ pc[p] = "register"
    /\ IF io
         THEN /\ registry' = registry \cup {wtName[p]}
              /\ Advance(p, "loop")
              /\ UNCHANGED lockFile
         ELSE /\ ReturnErr(p)
              /\ UNCHANGED registry
    /\ UNCHANGED <<worktrees, agentDir, parallel, restarts>>
    /\ UNCHANGED <<cleanVars, loopVars, ioVars>>

\* Variant: exec() without removing .ralph/restart-requested first.
ExecReplaceKeepMarker(p) ==
    /\ restartMarker' = restartMarker
    /\ restarts' = restarts + 1
    /\ pc' = [pc EXCEPT ![p] = "start"]
    /\ guard' = [guard EXCEPT ![p] = FALSE]
    /\ role' = [role EXCEPT ![p] = "none"]
    /\ waitedFor' = [waitedFor EXCEPT ![p] = NoProc]
    /\ wtName' = [wtName EXCEPT ![p] = NoName]
    /\ pendingReg' = [pendingReg EXCEPT ![p] = FALSE]
    /\ sigterm' = [sigterm EXCEPT ![p] = FALSE]
    /\ UNCHANGED <<lockFile, exitCode, exclusive>>

\* Restart: the marker is removed and the process image is replaced by
\* exec(); the PID and the arguments stay, the locals of run_command (the
\* guard) are gone without having been dropped.
ExecReplace(p) ==
    /\ restartMarker' = FALSE
    /\ restarts' = restarts + 1
    /\ pc' = [pc EXCEPT ![p] = "start"]
    /\ guard' = [guard EXCEPT ![p] = FALSE]
    /\ role' = [role EXCEPT ![p] = "none"]
    /\ waitedFor' = [waitedFor EXCEPT ![p] = NoProc]
    /\ wtName' = [wtName EXCEPT ![p] = NoName]
    /\ pendingReg' = [pendingReg EXCEPT ![p] = FALSE]
    /\ sigterm' = [sigterm EXCEPT ![p] = FALSE]
    /\ UNCHANGED <<lockFile, exitCode, exclusive>>

\* Variant: run_command returning Ok(()) whatever the reason.
ExitWithOk(p, code) == ReturnOk(p)

\* let exit_code = reason.exit_code(); exit(exit_code) unless it is 0.
ExitWith(p, code) ==
    IF code # 0 THEN ProcessExit(p, code) ELSE ReturnOk(p)

\* The end of run_command, from the reason r returned by run_loop_impl on.
Finish(p, r) ==
    /\ IF r = "RestartRequested"
         THEN ExecReplace(p)
         ELSE /\ ExitWith(p, exit_code(r))
              /\ UNCHANGED <<restartMarker, restarts>>
    /\ UNCHANGED <<worktrees, registry, agentDir, parallel>>
    /\ lstate' = IF r = "RestartRequested" THEN "Boot" ELSE lstate
    /\ UNCHANGED <<cleanVars, ioVars>>
    /\ UNCHANGED <<iteration, completed, agentRunning, fails, stopMarker,
                   lreason, loopEnds, hist, stopDuring, otherCause, markerSeen,
                   timedOut>>

\* run_loop_impl as run_command sees it, with what follows its return: it
\* returns some TerminationReason; after a SIGTERM that is StopRequested.
RunLoop(p, r) ==
    /\ pc[p] = "loop"
    /\ sigterm[p] => r = "StopRequested"
    /\ r = "RestartRequested" => restarts < MaxRestarts
    /\ Finish(p, r)

\* run_loop_impl(...).await? returning an error.
RunLoopErr(p) ==
    /\ pc[p] = "loop"
    /\ ReturnErr(p)
    /\ UNCHANGED <<worktrees, registry, agentDir, parallel, restarts>>
    /\ UNCHANGED <<cleanVars, loopVars, ioVars>>

\* ------------------------------------------------------------ signals
\* SIGTERM delivered to a process whose loop is running.
Sigterm(p) ==
    /\ pc[p] = "loop"
    /\ ~sigterm[p]
    /\ sigterm' = [sigterm EXCEPT ![p] = TRUE]
    /\ UNCHANGED <<pc, exclusive, guard, role, waitedFor, wtName, pendingReg,
                   exitCode>>
    /\ UNCHANGED <<sharedVars, cleanVars, loopVars, ioVars>>

\* SIGKILL (`loops stop --force`) or a crash while the loop runs: the process
\* is gone, nothing is cleaned up.
Kill(p) ==
    /\ pc[p] = "loop"
    /\ Gone(p, "killed", NoCode)
    /\ UNCHANGED <<sharedVars, cleanVars, loopVars, ioVars>>

\* ----------------------------------------------------- clean_command
LaunchClean(c, dry) ==
    /\ cpc[c] = "idle"
    /\ cpc' = [cpc EXCEPT ![c] = "agent"]
    /\ dryRun' = [dryRun EXCEPT ![c] = dry]
    /\ UNCHANGED <<sharedVars, procVars, loopVars, ioVars>>

CleanReturn(c) ==
    /\ cpc' = [cpc EXCEPT ![c] = "done"]
    /\ dryRun' = [dryRun EXCEPT ![c] = FALSE]

\* The agent directory: nothing to clean, a listing, or remove_dir_all.
CleanAgentDir(c) ==
    /\ cpc[c] = "agent"
    /\ IF ~agentDir
         THEN /\ CleanReturn(c)
              /\ UNCHANGED agentDir
         ELSE /\ agentDir' = dryRun[c]
              /\ cpc' = [cpc EXCEPT ![c] = "check"]
              /\ UNCHANGED dryRun
    /\ UNCHANGED <<lockFile, worktrees, registry, parallel, restarts>>
    /\ UNCHANGED <<procVars, loopVars, ioVars>>

\* is_stale: read_existing gives the recorded PID, pid_alive says it is dead.
is_stale == IF lockFile = NoProc THEN FALSE ELSE ~pid_alive(lockFile)

\* lock_path.exists(), then is_stale.
CleanCheck(c) ==
    /\ cpc[c] = "check"
    /\ IF is_stale
         THEN /\ cpc' = [cpc EXCEPT ![c] = "remove"]
              /\ UNCHANGED dryRun
         ELSE CleanReturn(c)
    /\ UNCHANGED <<sharedVars, procVars, loopVars, ioVars>>

\* The is_stale branch: a line of the listing, or fs::remove_file(lock_path).
CleanRemove(c) ==
    /\ cpc[c] = "remove"
    /\ lockFile' = IF dryRun[c] THEN lockFile ELSE NoProc
    /\ CleanReturn(c)
    /\ UNCHANGED <<worktrees, registry, agentDir, parallel, restarts>>
    /\ UNCHANGED <<procVars, loopVars, ioVars>>

\* ----------------------------------------------------- loop controller
Active == {"Priming", "Iterating", "Completing", "WaitingOnHuman"}

\* Priming: the starting event is published, the loop starts iterating.
Prime ==
    /\ lstate = "Priming"
    /\ lstate' = "Iterating"
    /\ UNCHANGED <<iteration, completed, agentRunning, fails, stopMarker,
                   restartMarker, lreason, loopEnds, hist, stopDuring, otherCause,
                   markerSeen, timedOut>>
    /\ UNCHANGED <<sharedVars, procVars, cleanVars, ioVars>>

\* One agent activation is started (Iterating, or the confirmation iteration).
StartIteration ==
    /\ lstate \in {"Iterating", "Completing"}
    /\ ~agentRunning
    /\ iteration' = iteration + 1
    /\ agentRunning' = TRUE
    /\ UNCHANGED <<lstate, completed, fails, stopMarker, restartMarker, lreason,
                   loopEnds, hist, stopDuring, otherCause, markerSeen, timedOut>>
    /\ UNCHANGED <<sharedVars, procVars, cleanVars, ioVars>>

\* Variant: the iteration cap is looked at before the restart marker.
SafeguardCapFirst(runtimeUp, idle) ==
    IF stopMarker THEN "StopRequested"
    ELSE IF iteration >= MaxIterations THEN "MaxIterations"
    ELSE IF restartMarker THEN "RestartRequested"
    ELSE IF runtimeUp THEN "MaxRuntime"
    ELSE IF idle THEN "IdleTimeout"
    ELSE "None"

\* Variant: the iteration cap compared one too late.
SafeguardLateCap(runtimeUp, idle) ==
    IF stopMarker THEN "StopRequested"
    ELSE IF restartMarker THEN "RestartRequested"
    ELSE IF iteration > MaxIterations THEN "MaxIterations"
    ELSE IF runtimeUp THEN "MaxRuntime"
    ELSE IF idle THEN "IdleTimeout"
    ELSE "None"

\* The safeguards, in their order; the first match wins.
Safeguard(runtimeUp, idle) ==
    IF stopMarker THEN "StopRequested"
    ELSE IF restartMarker THEN "RestartRequested"
    ELSE IF iteration >= MaxIterations THEN "MaxIterations"
    ELSE IF runtimeUp THEN "MaxRuntime"
    ELSE IF idle THEN "IdleTimeout"
    ELSE "None"

\* Variant: the loop gives up on the second failure in a row.
FailureAtSecond(f, jfail) ==
    IF jfail THEN "UnrecoverableError"
    ELSE IF f >= MaxConsecutiveFailures - 1 THEN "SubprocessFailed"
    ELSE "None"

\* The error policy: a journal failure that persists, a third failure in a row.
Failure(f, jfail) ==
    IF jfail THEN "UnrecoverableError"
    ELSE IF f >= MaxConsecutiveFailures THEN "SubprocessFailed"
    ELSE "None"

\* Variant: the stop marker is looked at only when nothing else is decided.
AbortReasonStopLast(f, runtimeUp, idle, jfail) ==
    IF restartMarker THEN "RestartRequested"
    ELSE IF iteration >= MaxIterations THEN "MaxIterations"
    ELSE IF runtimeUp THEN "MaxRuntime"
    ELSE IF idle THEN "IdleTimeout"
    ELSE IF Failure(f, jfail) # "None" THEN Failure(f, jfail)
    ELSE IF stopMarker THEN "StopRequested"
    ELSE "None"

\* Why the loop aborts after this iteration, "None" if it does not.
AbortReason(f, runtimeUp, idle, jfail) ==
    IF Safeguard(runtimeUp, idle) # "None"
    THEN Safeguard(runtimeUp, idle)
    ELSE Failure(f, jfail)

\* ----------------------------------------------------- hat registry, event router
Hats == 1 .. NumHats
NoHat == 0

\* Topics and patterns, as their dot-separated segments.
TaskStart == <<"task", "start">>
BuildDone == <<"build", "done">>
BuildFailed == <<"build", "failed">>
RoutedTopics == {TaskStart, BuildDone, BuildFailed}
Patterns == {TaskStart, <<"build", "*">>, <<"*", "done">>}

NoPublish == [topic |-> <<>>, by |-> NoHat, outcome |-> "none"]

\* `*` stands for any one segment, every other segment for itself.
SegMatch(ps, ts) == ps = "*" \/ ps = ts

\* Variant: only the first segment of the pattern is compared.
MatchesFirstSegment(pattern, topic) == SegMatch(pattern[1], topic[1])

\* A subscription pattern matches a topic segment by segment.
Matches(pattern, topic) ==
    /\ Len(pattern) = Len(topic)
    /\ \A i \in 1 .. Len(pattern) : SegMatch(pattern[i], topic[i])

\* match(topic): all hats whose subscriptions match.
match(T) == {h \in Hats : \E pattern \in hatSubs[h] : Matches(pattern, T)}

Queued(h) == {queues[h][i] : i \in 1 .. Len(queues[h])}

\* A matching hat gets a pair unless its queue holds the topic already and
\* coalescing is enabled.
Enqueues(h, T) == h \in match(T) /\ ~(coalesce /\ T \in Queued(h))

\* The publish would overflow a queue.
Backpressure(T) == \E h \in Hats : Enqueues(h, T) /\ Len(queues[h]) >= QueueCap

\* publish(event): rejected under backpressure, else one pair appended to
\* the ready queue of each matching hat.
publish(T, by) ==
    IF Backpressure(T)
    THEN /\ queues' = queues
         /\ lastPub' = [topic |-> T, by |-> by, outcome |-> "rejected"]
    ELSE /\ queues' = [h \in Hats |->
                         IF Enqueues(h, T) THEN Append(queues[h], T)
                         ELSE queues[h]]
         /\ lastPub' = [topic |-> T, by |-> by, outcome |-> "routed"]

\* A human or caller publishes an event.
Publish(T) ==
    /\ publish(T, NoHat)
    /\ UNCHANGED <<hatSubs, hatPubs, coalesce, active>>
    /\ UNCHANGED exceptRouter

\* The loop controller pops the next ready (hat, event) pair and invokes
\* the agent with that hat.
Activate(h) ==
    /\ active = NoHat
    /\ queues[h] # <<>>
    /\ queues' = [queues EXCEPT ![h] = Tail(queues[h])]
    /\ active' = h
    /\ UNCHANGED <<hatSubs, hatPubs, coalesce, lastPub>>
    /\ UNCHANGED exceptRouter

\* Variant: a hat may emit any topic.
PermittedAny(h, T) == TRUE

\* Every event a hat emits must be a topic of its publication set.
Permitted(h, T) == T \in hatPubs[h]

\* The invoker parsed an event marker in the output of the active hat: an
\* emission outside the publication set is logged and dropped.
HatEmit(h, T) ==
    /\ active = h
    /\ IF Permitted(h, T)
         THEN publish(T, h)
         ELSE /\ queues' = queues
              /\ lastPub' = [topic |-> T, by |-> h, outcome |-> "dropped"]
    /\ UNCHANGED <<hatSubs, hatPubs, coalesce, active>>
    /\ UNCHANGED exceptRouter

\* The agent subprocess of the active hat ends.
EndActivation ==
    /\ active # NoHat
    /\ active' = NoHat
    /\ UNCHANGED <<hatSubs, hatPubs, coalesce, queues, lastPub>>
    /\ UNCHANGED exceptRouter

\* ----------------------------------------------------- InputRouter
\* KeyEvent: a KeyCode and the KeyModifiers held.
CharKey(c) == [kind |-> "Char", c |-> c]
EnterKey == [kind |-> "Enter", c |-> ""]
KeyCodes == {CharKey("a"), CharKey("q"), EnterKey}
Modifiers == {{}, {"CONTROL"}}
KeyEvents == [code : KeyCodes, modifiers : Modifiers]

\* RouteResult
Forward(key) == [kind |-> "Forward", key |-> key, c |-> ""]
Command(c) == [kind |-> "Command", key |-> <<>>, c |-> c]
Consumed == [kind |-> "Consumed", key |-> <<>>, c |-> ""]

is_prefix(key) == key.code = CharKey("a") /\ "CONTROL" \in key.modifiers

\* Option<char>: the character of a Char key, "" for None.
extract_char(key) == IF key.code.kind = "Char" THEN key.code.c ELSE ""

\* Variant: after the prefix a key that is no character is forwarded.
RouteForwardsOthers(m, key) ==
    IF m = "Normal"
    THEN IF is_prefix(key) THEN Consumed ELSE Forward(key)
    ELSE IF extract_char(key) # "" THEN Command(extract_char(key))
    ELSE Forward(key)

\* route_key: the RouteResult for a key received in mode m.
Route(m, key) ==
    IF m = "Normal"
    THEN IF is_prefix(key) THEN Consumed ELSE Forward(key)
    ELSE IF extract_char(key) # "" THEN Command(extract_char(key))
    ELSE Consumed

\* Variant: command mode lasts until a character key arrives.
NextModeSticky(m, key) ==
    IF m = "Normal"
    THEN IF is_prefix(key) THEN "AwaitingCommand" ELSE "Normal"
    ELSE IF extract_char(key) # "" THEN "Normal" ELSE "AwaitingCommand"

\* route_key: the mode it leaves behind.
NextMode(m, key) ==
    IF m = "Normal"
    THEN IF is_prefix(key) THEN "AwaitingCommand" ELSE "Normal"
    ELSE "Normal"

\* router.route_key(key)
RouteKey(key) ==
    /\ Len(keyLog) < MaxKeys
    /\ mode' = NextMode(mode, key)
    /\ keyLog' = Append(keyLog, [key |-> key, result |-> Route(mode, key)])
    /\ UNCHANGED exceptInput

\* ----------------------------------------------------- task ledger
TaskIds == 1 .. NumTasks
Statuses == {"open", "closed", "blocked"}
TaskRecord(t, st) == [id |-> t, status |-> st]

\* The current state of a task is the latest record for its ID.
RECURSIVE LatestStatus(_, _)
LatestStatus(L, t) ==
    IF L = <<>> THEN "none"
    ELSE IF L[Len(L)].id = t THEN L[Len(L)].status
    ELSE LatestStatus(SubSeq(L, 1, Len(L) - 1), t)

\* Variant: a blocked task no longer counts as open.
OpenTasksUnblocked(L) == {t \in TaskIds : LatestStatus(L, t) = "open"}

\* `open` tasks are those whose latest status is open or blocked.
OpenTasks(L) == {t \in TaskIds : LatestStatus(L, t) \in {"open", "blocked"}}

OpenCount(L) == Cardinality(OpenTasks(L))

\* Variant: the first candidate already finalizes the loop.
AfterIterationSingle(candidate, interact, pending) ==
    IF candidate /\ ~pending THEN "Finalizing"
    ELSE IF interact THEN "WaitingOnHuman"
    ELSE "Iterating"

\* The controller state after an iteration that did not abort.
AfterIteration(candidate, interact, pending) ==
    IF lstate = "Completing"
    THEN IF candidate /\ ~pending /\ OpenCount(ledger) = 0
           THEN "Finalizing" ELSE "Iterating"
    ELSE IF candidate THEN "Completing"
    ELSE IF interact THEN "WaitingOnHuman"
    ELSE "Iterating"

\* The agent subprocess has ended and the controller evaluates the iteration.
\*   ok        the subprocess exited with success
\*   promise   its output holds the completion promise
\*   interact  it emitted human.interact
\*   pending   the scratchpad has `- [ ]` lines
\*   runtimeUp the wall-clock cap of the run is reached
\*   idle      the subprocess was ended by the idle timeout
\*   jfail     a journal write failed twice
EndIteration(ok, promise, interact, pending, runtimeUp, idle, jfail) ==
    /\ lstate \in {"Iterating", "Completing"}
    /\ agentRunning
    /\ idle => ~ok
    /\ agentRunning' = FALSE
    /\ completed' = completed + 1
    /\ hist' = Append(hist, ok /\ promise)
    /\ fails' = IF ok THEN 0 ELSE fails + 1
    /\ LET f == IF ok THEN 0 ELSE fails + 1
           r == AbortReason(f, runtimeUp, idle, jfail)
           to == AfterIteration(ok /\ promise, interact, pending)
       IN /\ lstate' = IF r # "None" THEN "Aborting" ELSE to
          /\ lreason' = IF r # "None" THEN r
                         ELSE IF to = "Finalizing" THEN "CompletionPromiseMet"
                         ELSE lreason
          /\ otherCause' = (otherCause \/ runtimeUp \/ idle \/ jfail
                               \/ f >= MaxConsecutiveFailures)
    /\ UNCHANGED <<iteration, stopMarker, restartMarker, loopEnds, stopDuring,
                   markerSeen, timedOut>>
    /\ UNCHANGED <<sharedVars, procVars, cleanVars, ioVars>>

\* WaitingOnHuman: a matching human.response appears on the journal.
HumanResponse ==
    /\ lstate = "WaitingOnHuman"
    /\ lstate' = "Iterating"
    /\ UNCHANGED <<iteration, completed, agentRunning, fails, stopMarker,
                   restartMarker, lreason, loopEnds, hist, stopDuring, otherCause,
                   markerSeen, timedOut>>
    /\ UNCHANGED <<sharedVars, procVars, cleanVars, ioVars>>

\* Variant: the timer fires but the controller goes on waiting.
HumanTimeoutIgnored ==
    /\ lstate = "WaitingOnHuman"
    /\ lstate' = "WaitingOnHuman"
    /\ timedOut' = TRUE
    /\ UNCHANGED <<iteration, completed, agentRunning, fails, stopMarker,
                   restartMarker, lreason, loopEnds, hist, stopDuring, otherCause,
                   markerSeen>>
    /\ UNCHANGED <<sharedVars, procVars, cleanVars, ioVars>>

\* WaitingOnHuman: the timeout elapses, a default response is synthesized.
HumanTimeout ==
    /\ lstate = "WaitingOnHuman"
    /\ lstate' = "Iterating"
    /\ timedOut' = TRUE
    /\ UNCHANGED <<iteration, completed, agentRunning, fails, stopMarker,
                   restartMarker, lreason, loopEnds, hist, stopDuring, otherCause,
                   markerSeen>>
    /\ UNCHANGED <<sharedVars, procVars, cleanVars, ioVars>>

\* The running agent appends a record to the task ledger.
TaskAppend(t, st) ==
    /\ lstate \in {"Iterating", "Completing"}
    /\ agentRunning
    /\ Len(ledger) < MaxLedger
    /\ ledger' = Append(ledger, TaskRecord(t, st))
    /\ UNCHANGED scratchPending
    /\ UNCHANGED exceptWork

\* The running agent rewrites the scratchpad: checklist items are added or
\* ticked off.
WriteScratchpad(b) ==
    /\ lstate \in {"Iterating", "Completing"}
    /\ agentRunning
    /\ b # scratchPending
    /\ scratchPending' = b
    /\ UNCHANGED ledger
    /\ UNCHANGED exceptWork

\* `ralph loops stop`, /stop: .ralph/stop-requested is written.
SetStopMarker ==
    /\ lstate \in Active
    /\ ~stopMarker
    /\ stopMarker' = TRUE
    /\ markerSeen' = TRUE
    /\ stopDuring' = IF agentRunning THEN iteration ELSE stopDuring
    /\ UNCHANGED <<lstate, iteration, completed, agentRunning, fails,
                   restartMarker, lreason, loopEnds, hist, otherCause, timedOut>>
    /\ UNCHANGED <<sharedVars, procVars, cleanVars, ioVars>>

\* /restart: .ralph/restart-requested is written.
SetRestartMarker ==
    /\ lstate \in Active
    /\ ~restartMarker
    /\ restarts < MaxRestarts
    /\ restartMarker' = TRUE
    /\ markerSeen' = TRUE
    /\ UNCHANGED <<lstate, iteration, completed, agentRunning, fails, stopMarker,
                   lreason, loopEnds, hist, stopDuring, otherCause, timedOut>>
    /\ UNCHANGED <<sharedVars, procVars, cleanVars, ioVars>>

\* Aborting: on to Finalizing with the reason already chosen.
Abort ==
    /\ lstate = "Aborting"
    /\ lstate' = "Finalizing"
    /\ UNCHANGED <<iteration, completed, agentRunning, fails, stopMarker,
                   restartMarker, lreason, loopEnds, hist, stopDuring, otherCause,
                   markerSeen, timedOut>>
    /\ UNCHANGED <<sharedVars, procVars, cleanVars, ioVars>>

\* Finalizing: loop.end is written with the reason, the stop marker is
\* cleared; the restart marker and the lock are left to run_command.
Finalize ==
    /\ lstate = "Finalizing"
    /\ lstate' = "Exited"
    /\ loopEnds' = loopEnds + 1
    /\ stopMarker' = FALSE
    /\ UNCHANGED <<iteration, completed, agentRunning, fails, restartMarker,
                   lreason, hist, stopDuring, otherCause, markerSeen, timedOut>>
    /\ UNCHANGED <<sharedVars, procVars, cleanVars, ioVars>>

\* run_loop_impl returns the controller's reason to run_command.
LoopReturn(p) ==
    /\ pc[p] = "loop"
    /\ lstate = "Exited"
    /\ Finish(p, lreason)

\* run_command calls run_loop_impl: a fresh controller starts in the loop's
\* workspace; the marker files are what the file system holds.
LoopEnter(p) ==
    /\ pc[p] = "loop"
    /\ lstate = "Boot"
    /\ lstate' = "Priming"
    /\ iteration' = 0
    /\ completed' = 0
    /\ agentRunning' = FALSE
    /\ fails' = 0
    /\ lreason' = "None"
    /\ hist' = <<>>
    /\ stopDuring' = 0
    /\ UNCHANGED <<stopMarker, restartMarker, loopEnds, otherCause, markerSeen,
                   timedOut>>
    /\ UNCHANGED <<sharedVars, procVars, cleanVars, ioVars>>

\* ------------------------------------------------- restart arguments
\* Command-line arguments as the operating system holds them; the last one is
\* not valid Unicode.
NonUnicodeArg == "<non-unicode>"
ArgStrings == {"ralph", "run", "--exclusive", "-p", "", NonUnicodeArg}

RECURSIVE SeqsUpTo(_, _)
SeqsUpTo(S, n) ==
    IF n = 0 THEN {<<>>}
    ELSE LET shorter == SeqsUpTo(S, n - 1)
         IN  shorter \cup {Append(q, x) : q \in {r \in shorter : Len(r) = n - 1},
                                          x \in S}

ArgVectors == SeqsUpTo(ArgStrings, MaxArgs) \ {<<>>}

\* std::env::args(): every argument as a String; it panics on an argument
\* that is not valid Unicode.
ArgsCollectable(osArgs) == \A i \in 1 .. Len(osArgs) : osArgs[i] # NonUnicodeArg

\* Variant: the arguments after the program name only.
ExecArgvNoProgram(args) == SubSeq(args, 2, Len(args))

\* Command::new(&args[0]).args(&args[1..]): the argv of the replacement is the
\* program followed by the rest.
ExecArgv(args) == <<args[1]>> \o SubSeq(args, 2, Len(args))

\* The restart branch from env::args() on: a panic in args(), or exec(), which
\* replaces the process or returns an error.
RestartExec(execOk) ==
    /\ rpc = "running"
    /\ IF ~ArgsCollectable(origArgs)
         THEN /\ rpc' = "panicked"
              /\ execArgs' = execArgs
         ELSE IF execOk
         THEN /\ rpc' = "replaced"
              /\ execArgs' = ExecArgv(origArgs)
         ELSE /\ rpc' = "failed"
              /\ execArgs' = execArgs
    /\ UNCHANGED origArgs
    /\ UNCHANGED <<sharedVars, procVars, cleanVars, loopVars, journalVars, waitVars,
                 extVars>>

\* The replacement runs with the argv it was given and may be asked to
\* restart in its turn.
ReplacementRuns ==
    /\ rpc = "replaced"
    /\ rpc' = "running"
    /\ origArgs' = execArgs
    /\ execArgs' = <<>>
    /\ UNCHANGED <<sharedVars, procVars, cleanVars, loopVars, journalVars, waitVars,
                 extVars>>

\* ------------------------------------------------------- event journal
Emitters == 1 .. NumEmitters
NoFile == "none"
RunJournal == "run"            \* the journal of the running loop
DefaultJournal == "default"    \* .ralph/events.jsonl
Files == {RunJournal, DefaultJournal}
Topics == {"human.response", "build.done"}
Payloads == {"", "hello", "7"}

\* serde_json::Value, as far as emit builds it.
NullValue == [kind |-> "null", text |-> ""]
StringValue(t) == [kind |-> "string", text |-> t]
ParsedValue(t) == [kind |-> "json", text |-> t]

\* serde_json::from_str::<Value>(t) succeeds: of the payloads, "7" is JSON.
IsJson(t) == t \in {"7"}

\* What a file holds: the pieces written to it, one per write; a record (the
\* serialized JSON object; `by` tells the writer, 0 for the loop) or a
\* newline.
Record(T, v, w) == [k |-> "rec", topic |-> T, payload |-> v, by |-> w]
Newline == [k |-> "nl", topic |-> "", payload |-> NullValue, by |-> 0]
NoRecord == [k |-> "none", topic |-> "", payload |-> NullValue, by |-> 0]
NoEmitArgs == [topic |-> "", payload |-> "", json |-> FALSE, file |-> NoFile]
NothingShown == [arg |-> NoFile, file |-> NoFile]

\* The lines of a file: the pieces between newlines, an unterminated last
\* line included.
RECURSIVE LinesFrom(_, _)
LinesFrom(c, cur) ==
    IF c = <<>> THEN (IF cur = <<>> THEN <<>> ELSE <<cur>>)
    ELSE IF Head(c).k = "nl" THEN <<cur>> \o LinesFrom(Tail(c), <<>>)
    ELSE LinesFrom(Tail(c), Append(cur, Head(c)))

LinesOf(c) == LinesFrom(c, <<>>)

\* read_all: one event per line that is one JSON object; blank lines and
\* malformed lines (two objects run together) are skipped.
ReadAll(c) ==
    LET good == SelectSeq(LinesOf(c), LAMBDA l : Len(l) = 1)
    IN  [i \in 1 .. Len(good) |-> good[i][1]]

\* Variant: an empty payload kept as the empty string.
EmitPayloadEmptyString(P, json) ==
    IF json /\ P # "" THEN ParsedValue(P)
    ELSE StringValue(P)

\* The "payload" member of the record emit builds.
EmitPayload(P, json) ==
    IF json /\ P # "" THEN ParsedValue(P)
    ELSE IF P = "" THEN NullValue
    ELSE StringValue(P)

\* Variant: --file wins over the marker.
EmitTargetFileFirst(fileArg) == fileArg

\* emit: the path in .ralph/current-events, else --file (.ralph/events.jsonl
\* by default).
EmitTarget(fileArg) == IF marker # NoFile THEN marker ELSE fileArg

\* events: --file when given, else the path in .ralph/current-events, else
\* .ralph/events.jsonl.
EventsTarget(fileArg) ==
    IF fileArg # NoFile THEN fileArg
    ELSE IF marker # NoFile THEN marker
    ELSE DefaultJournal

\* Variant: a --json payload that does not parse is written as a string.
EmitStartUnchecked(e, T, P, json, fileArg) ==
    /\ epc[e] = "idle"
    /\ \A d \in Emitters : d < e => epc[d] # "idle"
    /\ eargs' = [eargs EXCEPT ![e] =
                    [topic |-> T, payload |-> P, json |-> json, file |-> fileArg]]
    /\ epc' = [epc EXCEPT ![e] = "write"]
    /\ erec' = [erec EXCEPT ![e] =
                   Record(T, IF json /\ P # "" /\ ~IsJson(P) THEN StringValue(P)
                             ELSE EmitPayload(P, json), e)]
    /\ etarget' = [etarget EXCEPT ![e] = EmitTarget(fileArg)]
    /\ UNCHANGED <<files, marker, appended, shown>>
    /\ UNCHANGED <<sharedVars, procVars, cleanVars, loopVars, argVars, waitVars,
                 extVars>>

\* emit_command up to the open of the events file: with --json a payload
\* that is not JSON is refused; the record is built and the file resolved.
\* `emit` processes are numbered in the order of their start.
EmitStart(e, T, P, json, fileArg) ==
    /\ epc[e] = "idle"
    /\ \A d \in Emitters : d < e => epc[d] # "idle"
    /\ eargs' = [eargs EXCEPT ![e] =
                    [topic |-> T, payload |-> P, json |-> json, file |-> fileArg]]
    /\ IF json /\ P # "" /\ ~IsJson(P)
         THEN /\ epc' = [epc EXCEPT ![e] = "failed"]
              /\ UNCHANGED <<erec, etarget>>
         ELSE /\ epc' = [epc EXCEPT ![e] = "write"]
              /\ erec' = [erec EXCEPT ![e] = Record(T, EmitPayload(P, json), e)]
              /\ etarget' = [etarget EXCEPT ![e] = EmitTarget(fileArg)]
    /\ UNCHANGED <<files, marker, appended, shown>>
    /\ UNCHANGED <<sharedVars, procVars, cleanVars, loopVars, argVars, waitVars,
                 extVars>>

\* writeln!(file, "{}", json_line), first write: the record.
EmitWriteRecord(e) ==
    /\ epc[e] = "write"
    /\ epc' = [epc EXCEPT ![e] = "newline"]
    /\ files' = [files EXCEPT ![etarget[e]] = Append(@, erec[e])]
    /\ appended' = [appended EXCEPT ![etarget[e]] = Append(@, erec[e])]
    /\ UNCHANGED <<marker, eargs, erec, etarget, shown>>
    /\ UNCHANGED <<sharedVars, procVars, cleanVars, loopVars, argVars, waitVars,
                 extVars>>

\* writeln!(file, "{}", json_line), second write: the newline.
EmitWriteNewline(e) ==
    /\ epc[e] = "newline"
    /\ epc' = [epc EXCEPT ![e] = "done"]
    /\ files' = [files EXCEPT ![etarget[e]] = Append(@, Newline)]
    /\ UNCHANGED <<marker, eargs, erec, etarget, appended, shown>>
    /\ UNCHANGED <<sharedVars, procVars, cleanVars, loopVars, argVars, waitVars,
                 extVars>>

\* fs::create_dir_all(parent), then OpenOptions::new().create(true)
\* .append(true).open(events_file); io is whether the directory can be made.
EmitOpen(e, io) ==
    /\ epc[e] = "write"
    /\ e \notin opened
    /\ opened' = opened \cup {e}
    /\ jdir' = IF io THEN jdir \cup {etarget[e]} ELSE jdir
    /\ jfile' = IF io THEN jfile \cup {etarget[e]} ELSE jfile
    /\ epc' = IF io THEN epc ELSE [epc EXCEPT ![e] = "failed"]
    /\ UNCHANGED <<files, marker, eargs, erec, etarget, appended, shown>>
    /\ UNCHANGED <<sharedVars, procVars, cleanVars, loopVars, argVars, waitVars,
                   workVars, routerVars, resumeVars, inputVars, termVars,
                   tailVars, rootVars, dryVars>>

\* The first write of an emit that has opened its file.
EmitWriteOpened(e) ==
    /\ e \in opened
    /\ EmitWriteRecord(e)

\* A loop starts: it opens its journal and writes its path to the marker.
JournalOpen ==
    /\ marker = NoFile
    /\ marker' = RunJournal
    /\ UNCHANGED <<files, epc, eargs, erec, etarget, appended, shown>>
    /\ UNCHANGED <<sharedVars, procVars, cleanVars, loopVars, argVars, waitVars,
                 extVars>>

\* The loop ends: the marker is unlinked.
JournalClose ==
    /\ marker # NoFile
    /\ marker' = NoFile
    /\ UNCHANGED <<files, epc, eargs, erec, etarget, appended, shown>>
    /\ UNCHANGED <<sharedVars, procVars, cleanVars, loopVars, argVars, waitVars,
                 extVars>>

LoopAppends(f) == Len(SelectSeq(appended[f], LAMBDA r : r.by = 0))

\* The running loop appends an event to its journal: one write, record and
\* newline together.
LoopAppend(T, P) ==
    /\ marker # NoFile
    /\ LoopAppends(marker) < MaxLoopAppends
    /\ files' = [files EXCEPT ![marker] = @ \o <<Record(T, StringValue(P), 0), Newline>>]
    /\ appended' = [appended EXCEPT ![marker] = Append(@, Record(T, StringValue(P), 0))]
    /\ UNCHANGED <<marker, epc, eargs, erec, etarget, shown>>
    /\ UNCHANGED <<sharedVars, procVars, cleanVars, loopVars, argVars, waitVars,
                 extVars>>

\* `ralph events [--file F]`: the events of the resolved file are listed.
EventsShow(fileArg) ==
    /\ shown' = [arg |-> fileArg, file |-> EventsTarget(fileArg)]
    /\ UNCHANGED <<files, marker, epc, eargs, erec, etarget, appended>>
    /\ UNCHANGED <<sharedVars, procVars, cleanVars, loopVars, argVars, waitVars,
                 extVars>>

\* `ralph events --clear [--file F]`: the resolved file starts afresh.
EventsClear(fileArg) ==
    /\ files[EventsTarget(fileArg)] # <<>>
    /\ files' = [files EXCEPT ![EventsTarget(fileArg)] = <<>>]
    /\ appended' = [appended EXCEPT ![EventsTarget(fileArg)] = <<>>]
    /\ UNCHANGED <<marker, epc, eargs, erec, etarget, shown>>
    /\ UNCHANGED <<sharedVars, procVars, cleanVars, loopVars, argVars, waitVars,
                 extVars>>

\* --------------------------------------------------- wait_for_response
PollInterval == 1              \* poll_interval, in seconds
Timeout == TimeoutSecs
EventsPath == RunJournal       \* events_path: the journal of the waiting loop

\* A payload text that holds the marker of the pipe-separated format.
MentionPayload == "EVENT: human.response"

NotReturned == [kind |-> "pending", text |-> ""]
NoResponse == [kind |-> "none", text |-> ""]
SomeResponse(t) == [kind |-> "some", text |-> t]
ErrResult == [kind |-> "err", text |-> ""]

\* event.get("payload").and_then(as_str).unwrap_or("")
PayloadText(v) == IF v.kind = "string" THEN v.text ELSE ""

\* line.contains("EVENT: human.response")
Mentions(l) ==
    \E i \in 1 .. Len(l) : l[i].payload = StringValue(MentionPayload)

\* One line of the events file as check_for_response treats it: blank lines
\* are skipped; a line that parses as a JSON object with topic human.response
\* gives its payload; any other line that contains the pipe-format marker
\* gives the message found after "message:", here none.
CheckLine(l) ==
    IF Len(l) = 0 THEN NoResponse
    ELSE IF Len(l) = 1 /\ l[1].topic = "human.response"
    THEN SomeResponse(PayloadText(l[1].payload))
    ELSE IF Mentions(l) THEN SomeResponse("")
    ELSE NoResponse

\* The loop over reader.lines(): file_pos advances by the length of each line
\* read plus one; the first response ends the scan.
RECURSIVE ScanLines(_, _)
ScanLines(ls, pos) ==
    IF ls = <<>> THEN [pos |-> pos, res |-> NoResponse]
    ELSE IF CheckLine(Head(ls)) # NoResponse
    THEN [pos |-> pos + Len(Head(ls)) + 1, res |-> CheckLine(Head(ls))]
    ELSE ScanLines(Tail(ls), pos + Len(Head(ls)) + 1)

\* check_for_response(events_path, &mut file_pos) on a file of content c.
check_for_response(c, pos) ==
    ScanLines(LinesOf(SubSeq(c, pos + 1, Len(c))), pos)

\* The loop ID of the service, and another loop sharing the state file.
ServiceLoop == "main"
OtherLoop == "feature-auth"

\* if let Ok(mut state) = load_or_default() { let _ = remove_pending_question
\* (&mut state, &loop_id) }: the entry of this loop is removed; when the state
\* cannot be loaded or saved the failure is ignored and the file stays.
RemovePending(stOk) == IF stOk THEN pendingQ \ {ServiceLoop} ELSE pendingQ

\* Variant: the question is stored only when a chat ID is configured.
SendQuestionNeedsChat(stOk) ==
    /\ qres = "none"
    /\ IF stOk
         THEN /\ qres' = "ok"
              /\ pendingQ' = IF chatId THEN pendingQ \cup {ServiceLoop} ELSE pendingQ
         ELSE /\ qres' = "err"
              /\ pendingQ' = pendingQ
    /\ UNCHANGED <<now, wpc, deadline, filePos, wresult, wbase, wlen, chatId>>
    /\ UNCHANGED <<sharedVars, procVars, cleanVars, loopVars, argVars, journalVars,
                 extVars>>

\* send_question: the state is loaded, the question is logged (message ID 0
\* with or without a chat ID) and stored under the loop ID; an error of the
\* state manager is returned.
SendQuestion(stOk) ==
    /\ qres = "none"
    /\ IF stOk
         THEN /\ qres' = "ok"
              /\ pendingQ' = pendingQ \cup {ServiceLoop}
         ELSE /\ qres' = "err"
              /\ pendingQ' = pendingQ
    /\ UNCHANGED <<now, wpc, deadline, filePos, wresult, wbase, wlen, chatId>>
    /\ UNCHANGED <<sharedVars, procVars, cleanVars, loopVars, argVars, journalVars,
                 extVars>>

\* Variant: the deadline is noticed two polls late.
DeadlineReachedLate == now >= deadline + 2 * PollInterval

\* Instant::now() >= deadline
DeadlineReached == now >= deadline

\* wait_for_response up to its loop.
WaitBegin ==
    /\ wpc = "idle"
    /\ wpc' = "check"
    /\ deadline' = now + Timeout
    /\ filePos' = Len(files[EventsPath])
    /\ wbase' = Len(files[EventsPath])
    /\ wlen' = Len(files[EventsPath])
    /\ UNCHANGED <<now, wresult, pendingQ, chatId, qres>>
    /\ UNCHANGED <<sharedVars, procVars, cleanVars, loopVars, argVars, journalVars,
                 extVars>>

\* The head of the loop: at or past the deadline the wait returns None.
WaitCheck(stOk) ==
    /\ wpc = "check"
    /\ IF DeadlineReached
         THEN /\ wpc' = "returned"
              /\ wresult' = NoResponse
              /\ pendingQ' = RemovePending(stOk)
         ELSE /\ wpc' = "poll"
              /\ wresult' = wresult
              /\ pendingQ' = pendingQ
    /\ UNCHANGED <<now, deadline, filePos, wbase, wlen, chatId, qres>>
    /\ UNCHANGED <<sharedVars, procVars, cleanVars, loopVars, argVars, journalVars,
                 extVars>>

\* check_for_response(...)?: an I/O error is returned to the caller, a
\* response is returned as Some, otherwise the loop goes to sleep.
WaitPoll(io, stOk) ==
    /\ wpc = "poll"
    /\ LET r == check_for_response(files[EventsPath], filePos)
       IN  IF ~io
           THEN /\ wpc' = "returned"
                /\ wresult' = ErrResult
                /\ wlen' = Len(files[EventsPath])
                /\ filePos' = filePos
                /\ pendingQ' = pendingQ
           ELSE IF r.res # NoResponse
           THEN /\ wpc' = "returned"
                /\ wresult' = r.res
                /\ wlen' = Len(files[EventsPath])
                /\ filePos' = r.pos
                /\ pendingQ' = RemovePending(stOk)
           ELSE /\ wpc' = "sleep"
                /\ wresult' = wresult
                /\ wlen' = wlen
                /\ filePos' = r.pos
                /\ pendingQ' = pendingQ
    /\ UNCHANGED <<now, deadline, wbase, chatId, qres>>
    /\ UNCHANGED <<sharedVars, procVars, cleanVars, loopVars, argVars, journalVars,
                 extVars>>

\* std::thread::sleep(poll_interval)
WaitSleep ==
    /\ wpc = "sleep"
    /\ wpc' = "check"
    /\ now' = now + PollInterval
    /\ wlen' = Len(files[EventsPath])
    /\ UNCHANGED <<deadline, filePos, wresult, wbase, pendingQ, chatId, qres>>
    /\ UNCHANGED <<sharedVars, procVars, cleanVars, loopVars, argVars, journalVars,
                 extVars>>

\* A caller that keeps one file_pos and calls check_for_response on it again
\* and again, collecting what the calls return.
TailCheck ==
    /\ LET r == check_for_response(files[EventsPath], filePos)
       IN  /\ filePos' = r.pos
           /\ got' = IF r.res # NoResponse THEN Append(got, r.res) ELSE got
    /\ UNCHANGED <<now, wpc, deadline, wresult, wbase, wlen, pendingQ, chatId, qres>>
    /\ UNCHANGED <<sharedVars, procVars, cleanVars, loopVars, argVars, journalVars,
                 workVars, routerVars, resumeVars, inputVars, termVars,
                 rootVars, dryVars, diskVars>>

\* ---------------------------------------------------- find_workspace_root
\* A directory is the sequence of names that leads to it from the file
\* system's root, <<>>.
DirNames == 1 .. NumDirNames
RECURSIVE DirsOfDepth(_)
DirsOfDepth(n) ==
    IF n = 0 THEN {<<>>}
    ELSE {Append(d, x) : d \in DirsOfDepth(n - 1), x \in DirNames}
Dirs == UNION {DirsOfDepth(n) : n \in 0 .. MaxDepth}
Invocations == 1 .. 2
NoPath == <<0>>

\* A directory and its ancestors.
AtOrAbove(d) == {SubSeq(d, 1, n) : n \in 0 .. Len(d)}

\* Path::parent of a directory other than the root.
Parent(d) == SubSeq(d, 1, Len(d) - 1)

\* Variant: without a `.git` the walk returns where it ended, the root of
\* the file system.
FindRootKeepsLast(dir) ==
    LET hits == {n \in 0 .. Len(dir) : SubSeq(dir, 1, n) \in gitAt}
    IN  IF hits = {} THEN <<>>
        ELSE SubSeq(dir, 1, CHOOSE n \in hits : \A m \in hits : m <= n)

\* The loop of find_workspace_root: `current` is returned when
\* current.join(".git").exists(), else the walk goes on at its parent; at the
\* root of the file system (parent() is None) the starting directory is
\* returned.
RECURSIVE WalkUp(_, _)
WalkUp(current, start) ==
    IF current \in gitAt THEN current
    ELSE IF current = <<>> THEN start
    ELSE WalkUp(Parent(current), start)

find_workspace_root(dir) == WalkUp(dir, dir)

\* load_config_with_overrides: config.core.workspace_root is set from
\* find_workspace_root().
FindWorkspaceRoot(i) ==
    /\ wsRoot[i] = NoPath
    /\ wsRoot' = [wsRoot EXCEPT ![i] = find_workspace_root(cwd[i])]
    /\ UNCHANGED <<cwd, gitAt>>
    /\ UNCHANGED <<sharedVars, procVars, cleanVars, loopVars, argVars,
                   journalVars, waitVars, workVars, routerVars, resumeVars,
                   inputVars, termVars, tailVars, dryVars, diskVars>>

\* ------------------------------------------ terminal, panic hook, App::run
\* The operations of a hook, in the order in which it performs them.  The
\* hook of install_panic_hook disables raw mode, executes
\* LeaveAlternateScreen and Show on stdout, and calls the hook it replaced.
HookOps(h) ==
    IF h = "restore" THEN <<"disable_raw_mode", "execute">> ELSE <<"print">>

RECURSIVE ChainOps(_)
ChainOps(chain) ==
    IF chain = <<>> THEN <<>> ELSE HookOps(Head(chain)) \o ChainOps(Tail(chain))

\* Where main's body, and the TUI task it starts, can panic.
Running ==
    {"parse", "work", "tui_screen", "tui_new", "tui_loop", "tui_leave_raw",
     "tui_leave_screen", "after_tui"}

\* #[tokio::main]: the runtime is built, with expect(), before the body of
\* main is polled.
BuildRuntime(ok) ==
    /\ tpc = "runtime"
    /\ tpc' = IF ok THEN "install" ELSE "hook"
    /\ UNCHANGED <<rawMode, altScreen, cursorShown, panicHook, hookLog, runResult>>
    /\ UNCHANGED exceptTerm

\* A hook installed behind the one it replaces: the panic is printed first.
InstallPanicHookLast ==
    /\ tpc = "install"
    /\ panicHook' = panicHook \o <<"restore">>
    /\ tpc' = "parse"
    /\ UNCHANGED <<rawMode, altScreen, cursorShown, hookLog, runResult>>
    /\ UNCHANGED exceptTerm

\* install_panic_hook: take_hook, then set_hook with a closure that restores
\* the terminal and calls the hook taken.
InstallPanicHook ==
    /\ tpc = "install"
    /\ panicHook' = <<"restore">> \o panicHook
    /\ tpc' = "parse"
    /\ UNCHANGED <<rawMode, altScreen, cursorShown, hookLog, runResult>>
    /\ UNCHANGED exceptTerm

\* Cli::parse and the dispatch to the command.
ParseArgs ==
    /\ tpc = "parse"
    /\ tpc' = "work"
    /\ UNCHANGED <<rawMode, altScreen, cursorShown, panicHook, hookLog, runResult>>
    /\ UNCHANGED exceptTerm

\* App::run returns: its Terminal, when it was built, is dropped, and the
\* drop shows the cursor again.
RunReturns(res, built) ==
    /\ runResult' = res
    /\ tpc' = "after_tui"
    /\ cursorShown' = IF built THEN TRUE ELSE cursorShown

\* enable_raw_mode()?
TuiEnableRawMode(ok) ==
    /\ tpc = "work"
    /\ runResult = "none"
    /\ IF ok
       THEN /\ rawMode' = TRUE
            /\ tpc' = "tui_screen"
            /\ UNCHANGED <<cursorShown, runResult>>
       ELSE /\ RunReturns("err", FALSE)
            /\ UNCHANGED rawMode
    /\ UNCHANGED <<altScreen, panicHook, hookLog>>
    /\ UNCHANGED exceptTerm

\* execute!(stdout, EnterAlternateScreen)?
TuiEnterAlternateScreen(ok) ==
    /\ tpc = "tui_screen"
    /\ IF ok
       THEN /\ altScreen' = TRUE
            /\ tpc' = "tui_new"
            /\ UNCHANGED <<cursorShown, runResult>>
       ELSE /\ RunReturns("err", FALSE)
            /\ UNCHANGED altScreen
    /\ UNCHANGED <<rawMode, panicHook, hookLog>>
    /\ UNCHANGED exceptTerm

\* Terminal::new(backend)?
TuiTerminalNew(ok) ==
    /\ tpc = "tui_new"
    /\ IF ok
       THEN /\ tpc' = "tui_loop"
            /\ UNCHANGED <<cursorShown, runResult>>
       ELSE RunReturns("err", FALSE)
    /\ UNCHANGED <<rawMode, altScreen, panicHook, hookLog>>
    /\ UNCHANGED exceptTerm

\* The tick arm of the select!: terminal.draw(...)?, which hides the cursor.
TuiDraw(ok) ==
    /\ tpc = "tui_loop"
    /\ IF ok
       THEN /\ cursorShown' = FALSE
            /\ UNCHANGED <<tpc, runResult>>
       ELSE RunReturns("err", TRUE)
    /\ UNCHANGED <<rawMode, altScreen, panicHook, hookLog>>
    /\ UNCHANGED exceptTerm

\* The ctrl_c arm of the select!: break.
TuiCtrlC ==
    /\ tpc = "tui_loop"
    /\ tpc' = "tui_leave_raw"
    /\ UNCHANGED <<rawMode, altScreen, cursorShown, panicHook, hookLog, runResult>>
    /\ UNCHANGED exceptTerm

\* disable_raw_mode()?
TuiDisableRawMode(ok) ==
    /\ tpc = "tui_leave_raw"
    /\ IF ok
       THEN /\ rawMode' = FALSE
            /\ tpc' = "tui_leave_screen"
            /\ UNCHANGED <<cursorShown, runResult>>
       ELSE /\ RunReturns("err", TRUE)
            /\ UNCHANGED rawMode
    /\ UNCHANGED <<altScreen, panicHook, hookLog>>
    /\ UNCHANGED exceptTerm

\* execute!(terminal.backend_mut(), LeaveAlternateScreen)?; Ok(())
TuiLeaveAlternateScreen(ok) ==
    /\ tpc = "tui_leave_screen"
    /\ altScreen' = IF ok THEN FALSE ELSE altScreen
    /\ RunReturns(IF ok THEN "ok" ELSE "err", TRUE)
    /\ UNCHANGED <<rawMode, panicHook, hookLog>>
    /\ UNCHANGED exceptTerm

\* A panic in main or in the TUI task: the process's hook starts.
Panic ==
    /\ tpc \in Running
    /\ tpc' = "hook"
    /\ UNCHANGED <<rawMode, altScreen, cursorShown, panicHook, hookLog, runResult>>
    /\ UNCHANGED exceptTerm

\* The next operation of the running hook.  The results of disable_raw_mode
\* and of execute! are dropped (`let _ =`), so the hook goes on whether or not
\* they worked; an execute! that fails may have left the alternate screen
\* before it failed.  hookLog keeps, for each operation, whether it worked and
\* whether it changed the terminal.
HookStep(ok, left) ==
    /\ tpc = "hook"
    /\ Len(hookLog) < Len(ChainOps(panicHook))
    /\ LET op == ChainOps(panicHook)[Len(hookLog) + 1] IN
       /\ rawMode' = IF op = "disable_raw_mode" /\ ok THEN FALSE ELSE rawMode
       /\ altScreen' = IF op = "execute" /\ (ok \/ left) THEN FALSE ELSE altScreen
       /\ cursorShown' = IF op = "execute" /\ ok THEN TRUE ELSE cursorShown
       /\ hookLog' = Append(hookLog,
               <<op, ok, <<rawMode, altScreen, cursorShown>>
                         # <<rawMode', altScreen', cursorShown'>> >>)
    /\ UNCHANGED <<tpc, panicHook, runResult>>
    /\ UNCHANGED exceptTerm

\* The hook has run: the panic unwinds and the process, or the task, ends.
HookDone ==
    /\ tpc = "hook"
    /\ Len(hookLog) = Len(ChainOps(panicHook))
    /\ tpc' = "panicked"
    /\ UNCHANGED <<rawMode, altScreen, cursorShown, panicHook, hookLog, runResult>>
    /\ UNCHANGED exceptTerm

\* ------------------------------------------------------ specification
InitProcs ==
    /\ pc = [p \in Procs |-> "idle"]
    /\ exclusive = [p \in Procs |-> FALSE]
    /\ guard = [p \in Procs |-> FALSE]
    /\ role = [p \in Procs |-> "none"]
    /\ waitedFor = [p \in Procs |-> NoProc]
    /\ wtName = [p \in Procs |-> NoName]
    /\ pendingReg = [p \in Procs |-> FALSE]
    /\ exitCode = [p \in Procs |-> NoCode]
    /\ sigterm = [p \in Procs |-> FALSE]

InitArgs ==
    /\ origArgs = <<>>
    /\ execArgs = <<>>
    /\ rpc = "none"

InitJournal ==
    /\ files = [f \in Files |-> <<>>]
    /\ marker = NoFile
    /\ epc = [e \in Emitters |-> "idle"]
    /\ eargs = [e \in Emitters |-> NoEmitArgs]
    /\ erec = [e \in Emitters |-> NoRecord]
    /\ etarget = [e \in Emitters |-> NoFile]
    /\ appended = [f \in Files |-> <<>>]
    /\ shown = NothingShown

InitWait ==
    /\ now = 0
    /\ wpc = "idle"
    /\ deadline = 0
    /\ filePos = 0
    /\ wresult = NotReturned
    /\ wbase = 0
    /\ wlen = 0
    /\ pendingQ = {}
    /\ chatId = FALSE
    /\ qres = "none"

InitWork ==
    /\ ledger = <<>>
    /\ scratchPending = FALSE

InitRouter ==
    /\ hatSubs = [h \in Hats |-> {}]
    /\ hatPubs = [h \in Hats |-> {}]
    /\ coalesce = TRUE
    /\ queues = [h \in Hats |-> <<>>]
    /\ active = NoHat
    /\ lastPub = NoPublish

InitResume ==
    /\ continueMode = [p \in Procs |-> FALSE]
    /\ scratchpadFile = FALSE

\* InputRouter::new
InitInput ==
    /\ mode = "Normal"
    /\ keyLog = <<>>

\* The process as the operating system starts it: the terminal in cooked
\* mode on the main screen, the standard library's panic hook in place.
InitTerm ==
    /\ tpc = "runtime"
    /\ rawMode = FALSE
    /\ altScreen = FALSE
    /\ cursorShown = TRUE
    /\ panicHook = <<"default">>
    /\ hookLog = <<>>
    /\ runResult = "none"

InitTail ==
    /\ got = <<>>

InitRoot ==
    /\ cwd = [i \in Invocations |-> <<>>]
    /\ gitAt = {}
    /\ wsRoot = [i \in Invocations |-> NoPath]

InitDry ==
    /\ runDry = [p \in Procs |-> FALSE]

\* A repository in which no events file has been written yet.
InitDisk ==
    /\ jdir = {}
    /\ jfile = {}
    /\ opened = {}

InitMore ==
    /\ InitTerm
    /\ InitTail
    /\ InitRoot
    /\ InitDry
    /\ InitDisk

InitExt ==
    /\ InitWork
    /\ InitRouter
    /\ InitResume
    /\ InitInput
    /\ InitMore

InitIo ==
    /\ InitArgs
    /\ InitJournal
    /\ InitWait
    /\ InitExt

InitCleaners ==
    /\ cpc = [c \in Cleaners |-> "idle"]
    /\ dryRun = [c \in Cleaners |-> FALSE]

InitLoop ==
    /\ lstate = "Boot"
    /\ iteration = 0
    /\ completed = 0
    /\ agentRunning = FALSE
    /\ fails = 0
    /\ stopMarker = FALSE
    /\ restartMarker = FALSE
    /\ lreason = "None"
    /\ loopEnds = 0
    /\ hist = <<>>
    /\ stopDuring = 0
    /\ otherCause = FALSE
    /\ markerSeen = FALSE
    /\ timedOut = FALSE

Init ==
    /\ lockFile = NoProc
    /\ worktrees = {}
    /\ registry = {}
    /\ agentDir = FALSE
    /\ parallel \in BOOLEAN
    /\ restarts = 0
    /\ InitProcs
    /\ InitCleaners
    /\ InitLoop
    /\ InitIo

\* Every `run` and `clean` of a repository; a loop that ends with a restart
\* request is followed in RestartSpec.
Next ==
    \/ \E p \in Procs, ex \in BOOLEAN : Launch(p, ex)
    \/ \E p \in Procs : EnsureScratchpadDirectory(p)
    \/ \E p \in Procs : TryAcquire(p)
    \/ \E p \in Procs : AcquireBlocking(p)
    \/ \E p \in Procs, n \in Names : GenerateName(p, n)
    \/ \E p \in Procs, io \in BOOLEAN : CreateWorktree(p, io)
    \/ \E p \in Procs, io \in BOOLEAN : WorktreeSetup(p, io)
    \/ \E p \in Procs, io \in BOOLEAN : EnsureDirectories(p, io)
    \/ \E p \in Procs, passed \in BOOLEAN, rm \in BOOLEAN : Preflight(p, passed, rm)
    \/ \E p \in Procs, io \in BOOLEAN : Register(p, io)
    \/ \E p \in Procs, r \in Reasons \ {"RestartRequested"} : RunLoop(p, r)
    \/ \E p \in Procs : RunLoopErr(p)
    \/ \E p \in Procs : Sigterm(p)
    \/ \E p \in Procs : Kill(p)
    \/ \E c \in Cleaners, dry \in BOOLEAN : LaunchClean(c, dry)
    \/ \E c \in Cleaners : CleanAgentDir(c)
    \/ \E c \in Cleaners : CleanCheck(c)
    \/ \E c \in Cleaners : CleanRemove(c)

Spec == Init /\ [][Next]_vars

\* `run` with and without --continue, in a repository that may or may not
\* hold a scratchpad: no --exclusive, no I/O failure after the check.
ContinueInit ==
    /\ lockFile = NoProc
    /\ worktrees = {}
    /\ registry = {}
    /\ scratchpadFile \in BOOLEAN
    /\ agentDir = scratchpadFile
    /\ parallel \in BOOLEAN
    /\ restarts = 0
    /\ InitProcs
    /\ InitCleaners
    /\ InitLoop
    /\ InitArgs
    /\ InitJournal
    /\ InitWait
    /\ InitWork
    /\ InitRouter
    /\ InitInput
    /\ InitMore
    /\ continueMode = [p \in Procs |-> FALSE]

ContinueNext ==
    \/ \E p \in Procs, cont \in BOOLEAN : LaunchRun(p, FALSE, cont)
    \/ \E p \in Procs : ResumeCheck(p)
    \/ \E p \in Procs : EnsureScratchpadDirectory(p)
    \/ \E p \in Procs : TryAcquire(p)
    \/ \E p \in Procs, n \in Names : GenerateName(p, n)
    \/ \E p \in Procs : CreateWorktree(p, TRUE)
    \/ \E p \in Procs : WorktreeSetup(p, TRUE)
    \/ \E p \in Procs : EnsureDirectories(p, TRUE)
    \/ \E p \in Procs : Preflight(p, TRUE, TRUE)
    \/ \E p \in Procs : Register(p, TRUE)
    \/ \E p \in Procs : ScratchpadWritten(p)
    \/ \E p \in Procs, r \in {"CompletionPromiseMet", "MaxIterations"} :
          RunLoop(p, r)

ContinueSpec == ContinueInit /\ [][ContinueNext]_vars

\* `run --dry-run` next to `run`, each with and without --continue.
DryNext ==
    \/ \E p \in Procs, cont \in BOOLEAN : LaunchRun(p, FALSE, cont)
    \/ \E p \in Procs, cont \in BOOLEAN : LaunchDryRun(p, cont)
    \/ \E p \in Procs : ResumeCheck(p)
    \/ \E p \in Procs, passed \in BOOLEAN : DryRun(p, passed)
    \/ \E p \in Procs : RunProper(p)
    \/ \E p \in Procs : TryAcquire(p)
    \/ \E p \in Procs, n \in Names : GenerateName(p, n)
    \/ \E p \in Procs : CreateWorktree(p, TRUE)
    \/ \E p \in Procs : WorktreeSetup(p, TRUE)
    \/ \E p \in Procs : EnsureDirectories(p, TRUE)
    \/ \E p \in Procs : Preflight(p, TRUE, TRUE)
    \/ \E p \in Procs : Register(p, TRUE)
    \/ \E p \in Procs : ScratchpadWritten(p)
    \/ \E p \in Procs, r \in {"CompletionPromiseMet", "MaxIterations"} :
          RunLoop(p, r)

DrySpec == ContinueInit /\ [][DryNext]_vars

\* Parallel loops disabled and no `clean`: every contender either fails or,
\* with --exclusive, waits for the lock.
ExclInit ==
    /\ Init
    /\ ~parallel

ExclNext ==
    \/ \E p \in Procs, ex \in BOOLEAN : Launch(p, ex)
    \/ \E p \in Procs : EnsureScratchpadDirectory(p)
    \/ \E p \in Procs : TryAcquire(p)
    \/ \E p \in Procs : AcquireBlocking(p)
    \/ \E p \in Procs, io \in BOOLEAN : EnsureDirectories(p, io)
    \/ \E p \in Procs, passed \in BOOLEAN : Preflight(p, passed, FALSE)
    \/ \E p \in Procs, r \in Reasons : RunLoop(p, r)
    \/ \E p \in Procs : RunLoopErr(p)
    \/ \E p \in Procs : Sigterm(p)
    \/ \E p \in Procs : Kill(p)

\* acquire_blocking polls: a waiting process that keeps finding the lock free
\* takes it.
FairSpec ==
    /\ ExclInit
    /\ [][ExclNext]_vars
    /\ \A p \in Procs : WF_vars(AcquireBlocking(p))

\* Worktree loops: process 1 runs as the primary loop and holds the lock
\* throughout, parallel loops are enabled, every further `run` is a contender.
WorktreeInit ==
    /\ lockFile = 1
    /\ worktrees = {}
    /\ registry = {}
    /\ agentDir = TRUE
    /\ parallel = TRUE
    /\ restarts = 0
    /\ pc = [p \in Procs |-> IF p = 1 THEN "loop" ELSE "idle"]
    /\ exclusive = [p \in Procs |-> FALSE]
    /\ guard = [p \in Procs |-> p = 1]
    /\ role = [p \in Procs |-> IF p = 1 THEN "primary" ELSE "none"]
    /\ waitedFor = [p \in Procs |-> NoProc]
    /\ wtName = [p \in Procs |-> NoName]
    /\ pendingReg = [p \in Procs |-> FALSE]
    /\ exitCode = [p \in Procs |-> NoCode]
    /\ sigterm = [p \in Procs |-> FALSE]
    /\ InitCleaners
    /\ InitLoop
    /\ InitIo

WorktreeNext ==
    \/ \E p \in Procs : Launch(p, FALSE)
    \/ \E p \in Procs : EnsureScratchpadDirectory(p)
    \/ \E p \in Procs : TryAcquire(p)
    \/ \E p \in Procs, n \in Names : GenerateName(p, n)
    \/ \E p \in Procs, io \in BOOLEAN : CreateWorktree(p, io)
    \/ \E p \in Procs, io \in BOOLEAN : WorktreeSetup(p, io)
    \/ \E p \in Procs, io \in BOOLEAN : EnsureDirectories(p, io)
    \/ \E p \in Procs, passed \in BOOLEAN, rm \in BOOLEAN : Preflight(p, passed, rm)
    \/ \E p \in Procs, io \in BOOLEAN : Register(p, io)
    \/ \E p \in Procs, r \in Reasons : role[p] = "worktree" /\ RunLoop(p, r)
    \/ \E p \in Procs : role[p] = "worktree" /\ RunLoopErr(p)

WorktreeSpec == WorktreeInit /\ [][WorktreeNext]_vars

\* One loop: process 1 has booted as the primary loop and enters run_loop_impl.
LoopInit ==
    /\ lockFile = 1
    /\ worktrees = {}
    /\ registry = {}
    /\ agentDir = TRUE
    /\ parallel \in BOOLEAN
    /\ restarts = 0
    /\ pc = [p \in Procs |-> IF p = 1 THEN "loop" ELSE "idle"]
    /\ exclusive = [p \in Procs |-> FALSE]
    /\ guard = [p \in Procs |-> p = 1]
    /\ role = [p \in Procs |-> IF p = 1 THEN "primary" ELSE "none"]
    /\ waitedFor = [p \in Procs |-> NoProc]
    /\ wtName = [p \in Procs |-> NoName]
    /\ pendingReg = [p \in Procs |-> FALSE]
    /\ exitCode = [p \in Procs |-> NoCode]
    /\ sigterm = [p \in Procs |-> FALSE]
    /\ InitCleaners
    /\ lstate = "Priming"
    /\ iteration = 0
    /\ completed = 0
    /\ agentRunning = FALSE
    /\ fails = 0
    /\ stopMarker = FALSE
    /\ restartMarker = FALSE
    /\ lreason = "None"
    /\ loopEnds = 0
    /\ hist = <<>>
    /\ stopDuring = 0
    /\ otherCause = FALSE
    /\ markerSeen = FALSE
    /\ timedOut = FALSE
    /\ InitIo

IterationEnds ==
    \E ok \in BOOLEAN, promise \in BOOLEAN, interact \in BOOLEAN,
       pending \in BOOLEAN, runtimeUp \in BOOLEAN, idle \in BOOLEAN,
       jfail \in BOOLEAN :
        EndIteration(ok, promise, interact, pending, runtimeUp, idle, jfail)

LoopNext ==
    \/ Prime
    \/ StartIteration
    \/ IterationEnds
    \/ HumanResponse
    \/ HumanTimeout
    \/ SetStopMarker
    \/ SetRestartMarker
    \/ Abort
    \/ Finalize
    \/ \E p \in Procs : LoopReturn(p)

LoopSpec == LoopInit /\ [][LoopNext]_vars

\* The loop of LoopSpec together with what its agent leaves behind: every
\* iteration ends on the scratchpad and the ledger as the agent left them.
CompletionEnds ==
    \E ok \in BOOLEAN, promise \in BOOLEAN :
        EndIteration(ok, promise, FALSE, scratchPending, FALSE, FALSE, FALSE)

CompletionNext ==
    \/ Prime
    \/ StartIteration
    \/ CompletionEnds
    \/ \E t \in TaskIds, st \in Statuses : TaskAppend(t, st)
    \/ \E b \in BOOLEAN : WriteScratchpad(b)
    \/ Abort
    \/ Finalize
    \/ \E p \in Procs : LoopReturn(p)

CompletionSpec == LoopInit /\ [][CompletionNext]_vars

\* One loop and its restarts: the loop of LoopSpec, and after an exec the
\* replacement process going through run_command again up to its own loop.
RestartNext ==
    \/ LoopNext
    \/ \E p \in Procs : EnsureScratchpadDirectory(p)
    \/ \E p \in Procs : TryAcquire(p)
    \/ \E p \in Procs, n \in Names : GenerateName(p, n)
    \/ \E p \in Procs, io \in BOOLEAN : CreateWorktree(p, io)
    \/ \E p \in Procs, io \in BOOLEAN : WorktreeSetup(p, io)
    \/ \E p \in Procs, io \in BOOLEAN : EnsureDirectories(p, io)
    \/ \E p \in Procs, passed \in BOOLEAN, rm \in BOOLEAN : Preflight(p, passed, rm)
    \/ \E p \in Procs, io \in BOOLEAN : Register(p, io)
    \/ \E p \in Procs : LoopEnter(p)

RestartSpec == LoopInit /\ [][RestartNext]_vars

\* The idle coordinator and loop that the command-level specifications
\* below leave alone.
IdleInit ==
    /\ lockFile = NoProc
    /\ worktrees = {}
    /\ registry = {}
    /\ agentDir = FALSE
    /\ parallel = FALSE
    /\ restarts = 0
    /\ InitProcs
    /\ InitCleaners
    /\ InitLoop

\* A restart, for every argument vector of the restarting process.
ArgsInit ==
    /\ IdleInit
    /\ InitExt
    /\ InitJournal
    /\ InitWait
    /\ origArgs \in ArgVectors
    /\ execArgs = <<>>
    /\ rpc = "running"

ArgsNext ==
    \/ \E execOk \in BOOLEAN : RestartExec(execOk)
    \/ ReplacementRuns

ArgsSpec == ArgsInit /\ [][ArgsNext]_vars

\* The journal of a repository: loops that come and go, `emit` processes
\* and `events --clear`.
JournalInit ==
    /\ IdleInit
    /\ InitExt
    /\ InitArgs
    /\ InitJournal
    /\ InitWait

JournalNext ==
    \/ JournalOpen
    \/ JournalClose
    \/ \E T \in Topics : LoopAppend(T, "hello")
    \/ \E e \in Emitters, T \in Topics, P \in Payloads, json \in BOOLEAN :
          EmitStart(e, T, P, json, DefaultJournal)
    \/ \E e \in Emitters : EmitWriteRecord(e)
    \/ \E e \in Emitters : EmitWriteNewline(e)
    \/ \E fileArg \in Files \cup {NoFile} : EventsClear(fileArg)

JournalSpec == JournalInit /\ [][JournalNext]_vars

\* `emit` with every payload, with and without --json, in a repository
\* whose events files do not exist yet.
DiskNext ==
    \/ JournalOpen
    \/ JournalClose
    \/ \E e \in Emitters, T \in Topics, P \in Payloads, json \in BOOLEAN :
          EmitStart(e, T, P, json, DefaultJournal)
    \/ \E e \in Emitters, io \in BOOLEAN : EmitOpen(e, io)
    \/ \E e \in Emitters : EmitWriteOpened(e)
    \/ \E e \in Emitters : EmitWriteNewline(e)

DiskSpec == JournalInit /\ [][DiskNext]_vars

\* The size of what emit writes. A payload of 4096 bytes, the design target
\* of the single-write threshold, and the serialized record
\* {"payload":..,"topic":"..","ts":".."} with an RFC 3339 timestamp.
AtomicLimit == 4096
LongPayload == "xxxx (4096 bytes)"

TextBytes(t) ==
    CASE t = "" -> 0
      [] t = "7" -> 1
      [] t = "hello" -> 5
      [] t = "build.done" -> 10
      [] t = "human.response" -> 14
      [] t = MentionPayload -> 21
      [] t = LongPayload -> 4096

ValueBytes(v) ==
    CASE v.kind = "null" -> 4
      [] v.kind = "string" -> TextBytes(v.text) + 2
      [] v.kind = "json" -> TextBytes(v.text)

\* serde_json::to_string(&record).len()
SerializedBytes(rec) == 31 + ValueBytes(rec.payload) + TextBytes(rec.topic) + 35

\* `emit` processes with short and long payloads, against the journals of
\* loops that come and go.
SizeNext ==
    \/ JournalOpen
    \/ JournalClose
    \/ \E e \in Emitters, T \in Topics, P \in {"hello", LongPayload} :
          EmitStart(e, T, P, FALSE, DefaultJournal)
    \/ \E e \in Emitters : EmitWriteRecord(e)
    \/ \E e \in Emitters : EmitWriteNewline(e)

SizeSpec == JournalInit /\ [][SizeNext]_vars

\* Which file the commands use: loops that come and go, `emit` with any
\* --file, `events` with and without --file.
EventsNext ==
    \/ JournalOpen
    \/ JournalClose
    \/ \E T \in Topics : LoopAppend(T, "hello")
    \/ \E e \in Emitters, T \in Topics, P \in Payloads, fileArg \in Files :
          EmitStart(e, T, P, FALSE, fileArg)
    \/ \E e \in Emitters : EmitWriteRecord(e)
    \/ \E e \in Emitters : EmitWriteNewline(e)
    \/ \E fileArg \in Files \cup {NoFile} : EventsShow(fileArg)

EventsSpec == JournalInit /\ [][EventsNext]_vars

\* A loop waiting for a human: its journal is the one the marker names; the
\* loop's chat ingress and `emit` processes append to it while
\* wait_for_response polls.
WaitInit ==
    /\ IdleInit
    /\ InitExt
    /\ InitArgs
    /\ files = [f \in Files |-> <<>>]
    /\ marker = RunJournal
    /\ epc = [e \in Emitters |-> "idle"]
    /\ eargs = [e \in Emitters |-> NoEmitArgs]
    /\ erec = [e \in Emitters |-> NoRecord]
    /\ etarget = [e \in Emitters |-> NoFile]
    /\ appended = [f \in Files |-> <<>>]
    /\ shown = NothingShown
    /\ InitWait

\* What the `emit` processes of WaitSpec send: an answer, or another event
\* whose text quotes the pipe format.
EmittedPayload(T) == IF T = "human.response" THEN "hello" ELSE MentionPayload

WaitChecks == \E stOk \in BOOLEAN : WaitCheck(stOk)

WaitPolls == \E io \in BOOLEAN, stOk \in BOOLEAN : WaitPoll(io, stOk)

WaitNext ==
    \/ WaitBegin
    \/ WaitChecks
    \/ WaitPolls
    \/ WaitSleep
    \/ \E T \in Topics : LoopAppend(T, "hello")
    \/ \E e \in Emitters, T \in Topics :
          EmitStart(e, T, EmittedPayload(T), FALSE, DefaultJournal)
    \/ \E e \in Emitters : EmitWriteRecord(e)
    \/ \E e \in Emitters : EmitWriteNewline(e)

WaitSpec == WaitInit /\ [][WaitNext]_vars

\* The waiting thread is scheduled and its sleep ends.
FairWaitSpec ==
    /\ WaitSpec
    /\ WF_vars(WaitChecks)
    /\ WF_vars(WaitPolls)
    /\ WF_vars(WaitSleep)

\* Ask-human: the service of loop "main" stores a question and waits for
\* the answer, on a state file that may hold another loop's question, with
\* or without a chat ID.
QuestionInit ==
    /\ IdleInit
    /\ InitExt
    /\ InitArgs
    /\ InitJournal
    /\ now = 0
    /\ wpc = "idle"
    /\ deadline = 0
    /\ filePos = 0
    /\ wresult = NotReturned
    /\ wbase = 0
    /\ wlen = 0
    /\ pendingQ \in SUBSET {OtherLoop}
    /\ chatId \in BOOLEAN
    /\ qres = "none"

QuestionNext ==
    \/ \E stOk \in BOOLEAN : SendQuestion(stOk)
    \/ qres = "ok" /\ WaitBegin
    \/ WaitChecks
    \/ WaitPolls
    \/ WaitSleep
    \/ JournalOpen
    \/ \E T \in Topics : LoopAppend(T, "hello")

QuestionSpec == QuestionInit /\ [][QuestionNext]_vars

\* Ask-human with answers that arrive only after send_question has returned:
\* before the wait begins, while it polls, or after it returned.
AskNext ==
    \/ \E stOk \in BOOLEAN : SendQuestion(stOk)
    \/ qres = "ok" /\ WaitBegin
    \/ WaitChecks
    \/ WaitPolls
    \/ WaitSleep
    \/ JournalOpen
    \/ \E T \in Topics : qres = "ok" /\ LoopAppend(T, "hello")

AskSpec == QuestionInit /\ [][AskNext]_vars

\* The router of one loop, for every configuration of hats out of a few
\* subscription sets and publication sets.
SubscriptionSets ==
    {{}, {TaskStart}, {<<"build", "*">>}, {<<"build", "*">>, <<"*", "done">>}}
PublicationSets == {{}, {BuildDone}, {BuildDone, BuildFailed}}

RouterInit ==
    /\ IdleInit
    /\ InitArgs
    /\ InitJournal
    /\ InitWait
    /\ InitWork
    /\ InitResume
    /\ InitInput
    /\ InitMore
    /\ hatSubs \in [Hats -> SubscriptionSets]
    /\ hatPubs \in [Hats -> PublicationSets]
    /\ coalesce \in BOOLEAN
    /\ queues = [h \in Hats |-> <<>>]
    /\ active = NoHat
    /\ lastPub = NoPublish

RouterNext ==
    \/ \E T \in RoutedTopics : Publish(T)
    \/ \E h \in Hats : Activate(h)
    \/ \E h \in Hats, T \in RoutedTopics : HatEmit(h, T)
    \/ EndActivation

RouterSpec == RouterInit /\ [][RouterNext]_vars

\* An InputRouter fed every sequence of keys.
InputInit ==
    /\ IdleInit
    /\ InitArgs
    /\ InitJournal
    /\ InitWait
    /\ InitExt

InputNext == \E key \in KeyEvents : RouteKey(key)

InputSpec == InputInit /\ [][InputNext]_vars

\* A reader tailing the journal of a running loop from its start while the
\* loop and `emit` processes append to it.
TailNext ==
    \/ TailCheck
    \/ \E T \in Topics : LoopAppend(T, "hello")
    \/ \E e \in Emitters, T \in Topics : EmitStart(e, T, "hello", FALSE, DefaultJournal)
    \/ \E e \in Emitters : EmitWriteRecord(e)
    \/ \E e \in Emitters : EmitWriteNewline(e)

TailSpec == WaitInit /\ [][TailNext]_vars

\* Two invocations of ralph, each from a directory of a file system in which
\* some of the directories at or above them hold a `.git`.
RootInit ==
    /\ IdleInit
    /\ InitArgs
    /\ InitJournal
    /\ InitWait
    /\ InitWork
    /\ InitRouter
    /\ InitResume
    /\ InitInput
    /\ InitTerm
    /\ InitTail
    /\ InitDry
    /\ InitDisk
    /\ cwd \in [Invocations -> Dirs]
    /\ gitAt \in {g \in SUBSET (AtOrAbove(cwd[1]) \cup AtOrAbove(cwd[2])) :
                      Cardinality(g) <= MaxGit}
    /\ wsRoot = [i \in Invocations |-> NoPath]

RootNext == \E i \in Invocations : FindWorkspaceRoot(i)

RootSpec == RootInit /\ [][RootNext]_vars

\* One process from its start: main, the TUI task, and a panic at any point
\* of either.
TermInit ==
    /\ IdleInit
    /\ InitArgs
    /\ InitJournal
    /\ InitWait
    /\ InitExt

TermNext ==
    \/ \E ok \in BOOLEAN : BuildRuntime(ok)
    \/ InstallPanicHook
    \/ ParseArgs
    \/ \E ok \in BOOLEAN : TuiEnableRawMode(ok)
    \/ \E ok \in BOOLEAN : TuiEnterAlternateScreen(ok)
    \/ \E ok \in BOOLEAN : TuiTerminalNew(ok)
    \/ \E ok \in BOOLEAN : TuiDraw(ok)
    \/ TuiCtrlC
    \/ \E ok \in BOOLEAN : TuiDisableRawMode(ok)
    \/ \E ok \in BOOLEAN : TuiLeaveAlternateScreen(ok)
    \/ Panic
    \/ \E ok \in BOOLEAN, left \in BOOLEAN : HookStep(ok, left)
    \/ HookDone

TermSpec == TermInit /\ [][TermNext]_vars

\* The agent subprocess ends (it is bounded by the idle and wall-clock
\* timeouts), the ask-human timer fires, and the controller takes its own steps.
FairLoopSpec ==
    /\ LoopSpec
    /\ WF_vars(Prime)
    /\ WF_vars(StartIteration)
    /\ WF_vars(IterationEnds)
    /\ WF_vars(HumanTimeout)
    /\ WF_vars(Abort)
    /\ WF_vars(Finalize)

\* ================================================================ claims

\* C1: at most one live process runs as the lock-holding primary loop at any
\* instant, for any interleaving of `run`, `run --exclusive` and `clean`:
\* two processes never both believe they hold .ralph/loop.lock.
C1_MutualExclusion ==
    \A p \in Procs, q \in Procs :
        (/\ guard[p] /\ role[p] = "primary" /\ pid_alive(p)
         /\ guard[q] /\ role[q] = "primary" /\ pid_alive(q)) => p = q

\* C2: the reason CompletionPromiseMet is reached only when the promise was
\* observed in the last two iterations in a row; an iteration that ends in
\* Iterating never finalizes by completion (one observation is not enough),
\* and a confirmation iteration without the promise sends the loop back to
\* Iterating (or aborts it on a safeguard), never to completion.
C2_DualConfirmation ==
    /\ [](lreason = "CompletionPromiseMet" =>
            /\ Len(hist) >= 2
            /\ hist[Len(hist)]
            /\ hist[Len(hist) - 1])
    /\ [][completed' = completed + 1 =>
            /\ lstate = "Iterating" =>
                    (lstate' # "Finalizing" /\ lreason' # "CompletionPromiseMet")
            /\ (lstate = "Completing" /\ ~hist'[Len(hist')]) =>
                    (lstate' \in {"Iterating", "Aborting"}
                        /\ lreason' # "CompletionPromiseMet")]_vars

C2_Witness ==
    /\ lstate = "Exited"
    /\ lreason = "CompletionPromiseMet"
    /\ hist = <<TRUE, FALSE, TRUE, TRUE>>

\* C3: a loop with a finite max_iterations eventually reaches Exited, whatever
\* the agent outputs and whether or not a human.interact question is answered.
C3_Terminates == <>(lstate = "Exited")

C3_Witness ==
    /\ lstate = "Exited"
    /\ timedOut
    /\ lreason \in Reasons

\* C4 (as stated): with the promise never observed and no stop or restart
\* marker, the loop performs exactly MaxIterations activations, emits one
\* loop.end with reason MaxIterations and exits with code 2.
C4_Original ==
    (/\ lstate = "Exited"
     /\ \A i \in 1 .. Len(hist) : ~hist[i]
     /\ ~markerSeen)
    => /\ iteration = MaxIterations
       /\ completed = MaxIterations
       /\ loopEnds = 1
       /\ lreason = "MaxIterations"
       /\ \A p \in Procs : pc[p] = "exited" => exitCode[p] = 2

\* C4 (amended): never more than MaxIterations activations are started; and
\* with the promise never observed, no stop or restart marker, and no runtime
\* cap, idle timeout, third consecutive failure or unrecoverable error, the
\* loop performs exactly MaxIterations activations, emits one loop.end with
\* reason MaxIterations and exits with code 2.
C4_Amended ==
    /\ iteration <= MaxIterations
    /\ (/\ lstate = "Exited"
        /\ \A i \in 1 .. Len(hist) : ~hist[i]
        /\ ~markerSeen
        /\ ~otherCause)
       => /\ iteration = MaxIterations
          /\ completed = MaxIterations
          /\ loopEnds = 1
          /\ lreason = "MaxIterations"
          /\ \A p \in Procs : pc[p] = "exited" => exitCode[p] = 2

C4_Witness ==
    /\ lstate = "Exited"
    /\ \A i \in 1 .. Len(hist) : ~hist[i]
    /\ ~markerSeen
    /\ ~otherCause
    /\ completed = MaxIterations
    /\ loopEnds = 1
    /\ \E p \in Procs : pc[p] = "exited" /\ exitCode[p] = 2

\* C5: a stop marker that appears while iteration k runs does not interrupt
\* it: iteration k runs to its end, no iteration k+1 is started, the loop
\* finalizes with reason StopRequested and the process exits with code 3.
C5_StopAtBoundary ==
    stopDuring # 0 =>
        /\ iteration = stopDuring
        /\ agentRunning => (completed = stopDuring - 1 /\ lstate \in Active)
        /\ ~agentRunning =>
              /\ completed = stopDuring
              /\ lreason = "StopRequested"
              /\ lstate \in {"Aborting", "Finalizing", "Exited"}
        /\ \A p \in Procs : pc[p] \in Dead \ {"idle"} =>
              (pc[p] = "exited" /\ exitCode[p] = 3)

C5_Witness ==
    /\ stopDuring = 2
    /\ lstate = "Exited"
    /\ loopEnds = 1
    /\ \E p \in Procs : pc[p] = "exited" /\ exitCode[p] = 3

\* C6: the exit code of `run` is a function of the termination reason alone:
\* CompletionPromiseMet 0, UnrecoverableError 1, MaxIterations, MaxRuntime and
\* IdleTimeout 2, StopRequested 3, SubprocessFailed 4.
C6_ExitCodeTable ==
    \A p \in Procs :
        pc[p] = "exited" =>
            /\ lreason = "CompletionPromiseMet" => exitCode[p] = 0
            /\ lreason = "UnrecoverableError" => exitCode[p] = 1
            /\ lreason = "MaxIterations" => exitCode[p] = 2
            /\ lreason = "MaxRuntime" => exitCode[p] = 2
            /\ lreason = "IdleTimeout" => exitCode[p] = 2
            /\ lreason = "StopRequested" => exitCode[p] = 3
            /\ lreason = "SubprocessFailed" => exitCode[p] = 4
            /\ lreason \in Reasons \ {"RestartRequested"}

C6_Witness ==
    /\ lreason = "SubprocessFailed"
    /\ \E p \in Procs : pc[p] = "exited" /\ exitCode[p] = 4

\* C7: whenever a primary loop process has exited through the normal
\* termination path, whatever its exit code, the lock file no longer records
\* it: .ralph/loop.lock has been unlinked.
C7_LockReleasedOnExit ==
    \A p \in Procs : pc[p] = "exited" => lockFile # p

C9_WorktreeLeavesLock ==
    [][\A p \in Procs :
        (/\ pc[p] \in {"genid", "mkworktree", "setup"} \/ role[p] = "worktree"
         /\ pc'[p] # pc[p])
        => /\ lockFile' = lockFile
           /\ ~guard[p]
           /\ ~guard'[p]]_vars

C9_Witness ==
    \E p \in Procs, q \in Procs :
        /\ role[p] = "worktree" /\ pc[p] = "loop" /\ wtName[p] \in registry
        /\ role[q] = "primary" /\ pc[q] = "loop" /\ lockFile = q

C12_LockReleasedBeforeExec ==
    [][\A p \in Procs :
        (pc[p] = "loop" /\ role[p] = "primary" /\ pc'[p] = "start") =>
            lockFile' = NoProc]_vars

C14_SameArguments ==
    rpc = "replaced" => execArgs = origArgs

C14_Witness ==
    /\ rpc = "replaced"
    /\ Len(execArgs) >= 3
    /\ execArgs[2] = "run"
    /\ execArgs[3] = "--exclusive"

\* No `emit` is between its two writes to file f.
Quiescent(f) == \A e \in Emitters : ~(epc[e] = "newline" /\ etarget[e] = f)

\* C15: the journal only grows and reads back what was appended: whenever no
\* append to a journal is under way, a read-all of it returns the events
\* appended to it by the loop and by `emit`, all of them, in append order.
C15_ReadAllReturnsAppended ==
    \A f \in Files : Quiescent(f) => ReadAll(files[f]) = appended[f]

\* C16: under concurrent appends every record is one intact line: no line of
\* a journal ever holds the bytes of two records.
C16_LinesIntact ==
    \A f \in Files :
        \A i \in 1 .. Len(LinesOf(files[f])) : Len(LinesOf(files[f])[i]) <= 1

\* The file `emit` e wrote to ends with the line of e's record, alone on it.
LastLineIsOf(e) ==
    LET c == files[etarget[e]]
        n == Len(c)
    IN  IF n < 2 THEN FALSE
        ELSE /\ c[n] = Newline
             /\ c[n - 1] = erec[e]
             /\ IF n = 2 THEN TRUE ELSE c[n - 2] = Newline

LastEvent(f) == ReadAll(files[f])[Len(ReadAll(files[f]))]

\* C17 (as stated): after `emit T P`, the last event read from the journal has
\* topic T and payload P: the string P without --json, the JSON value parsed
\* from P with --json, for every P, the empty payload included.
C17_Original ==
    \A e \in Emitters :
        (epc[e] = "done" /\ LastLineIsOf(e)) =>
            /\ LastEvent(etarget[e]).topic = eargs[e].topic
            /\ LastEvent(etarget[e]).payload =
                  IF eargs[e].json THEN ParsedValue(eargs[e].payload)
                  ELSE StringValue(eargs[e].payload)

\* C17 (amended): after `emit T P`, the last event read from the journal has
\* topic T; its payload is the string P without --json and the JSON value
\* parsed from P with --json when P is not empty, and null when P is empty,
\* with or without --json. With --json and a P that is not JSON, emit fails
\* and appends nothing.
C17_Amended ==
    \A e \in Emitters :
        /\ (epc[e] = "done" /\ LastLineIsOf(e)) =>
            /\ LastEvent(etarget[e]).topic = eargs[e].topic
            /\ LastEvent(etarget[e]).payload =
                  IF eargs[e].payload = "" THEN NullValue
                  ELSE IF eargs[e].json THEN ParsedValue(eargs[e].payload)
                  ELSE StringValue(eargs[e].payload)
        /\ epc[e] = "failed" =>
            /\ eargs[e].json
            /\ ~IsJson(eargs[e].payload)
            /\ \A f \in Files : \A i \in 1 .. Len(files[f]) : files[f][i].by # e

\* An empty payload was emitted and reads back as null.
C17_Witness ==
    \E e \in Emitters :
        /\ epc[e] = "done"
        /\ LastLineIsOf(e)
        /\ eargs[e].payload = ""
        /\ ~eargs[e].json
        /\ LastEvent(etarget[e]).payload = NullValue

\* `emit` e resolves its file in this step.
Resolves(e) == epc[e] = "idle" /\ epc'[e] = "write"

\* C18 (as stated): while a loop runs, emit appends to the journal named by
\* .ralph/current-events, which is also the file `events` shows; a --file
\* path is used only when the marker is absent.
C18_Original ==
    [][/\ \A e \in Emitters :
            Resolves(e) =>
                etarget'[e] = IF marker # NoFile THEN marker ELSE eargs'[e].file
       /\ (shown' # shown /\ marker # NoFile) => shown'.file = marker]_vars

\* C18 (amended): while a loop runs, emit appends to the journal named by
\* .ralph/current-events whatever its --file, which is used only when the
\* marker is absent; the record lands in the file resolved; `events` without
\* --file shows the journal named by the marker (.ralph/events.jsonl when
\* there is none), and `events --file F` shows F, marker or not.
C18_Amended ==
    [][/\ \A e \in Emitters :
            /\ Resolves(e) =>
                etarget'[e] = IF marker # NoFile THEN marker ELSE eargs'[e].file
            /\ (epc[e] = "write" /\ epc'[e] = "newline") =>
                /\ files'[etarget[e]] = Append(files[etarget[e]], erec[e])
                /\ \A f \in Files \ {etarget[e]} : files'[f] = files[f]
       /\ shown' # shown =>
            shown'.file = IF shown'.arg # NoFile THEN shown'.arg
                          ELSE IF marker # NoFile THEN marker
                          ELSE DefaultJournal]_vars

\* During a run an emit given the default --file has written to the run's
\* journal, and a following `events` shows that journal with the event in it.
C18_Witness ==
    \E e \in Emitters :
        /\ marker = RunJournal
        /\ epc[e] = "done"
        /\ eargs[e].file = DefaultJournal
        /\ etarget[e] = RunJournal
        /\ shown = [arg |-> NoFile, file |-> RunJournal]
        /\ \E i \in 1 .. Len(ReadAll(files[shown.file])) :
              ReadAll(files[shown.file])[i] = erec[e]

\* The human.response records appended to the events file after the wait
\* began and before the deadline (or before the wait returned).
ResponsesInTime ==
    {i \in (wbase + 1) .. wlen :
        /\ files[EventsPath][i].k = "rec"
        /\ files[EventsPath][i].topic = "human.response"}

FirstResponse ==
    files[EventsPath][CHOOSE i \in ResponsesInTime :
                          \A j \in ResponsesInTime : i <= j]

\* C19: wait_for_response returns Some(payload) exactly when a human.response
\* record was appended after the wait began and before the deadline, with the
\* payload of the first such record, and None when there was none; records
\* with another topic never end the wait.
C19_ResponseEndsWait ==
    (wpc = "returned" /\ wresult # ErrResult) =>
        IF ResponsesInTime # {}
        THEN wresult = SomeResponse(FirstResponse.payload.text)
        ELSE wresult = NoResponse

\* C20: wait_for_response always returns, whatever the events file holds or
\* receives, and no later than the timeout plus one poll interval after it
\* began.
C20_Returns ==
    (wpc = "check") ~>
        (wpc = "returned" /\ now <= deadline + PollInterval)

\* The wait has timed out over a journal that grew with events that are not
\* responses.
C20_Witness ==
    /\ wpc = "returned"
    /\ wresult = NoResponse
    /\ now >= deadline
    /\ now <= deadline + PollInterval
    /\ Len(files[EventsPath]) > wbase
    /\ ResponsesInTime = {}

LatestIsOpen(t) ==
    \E i \in 1 .. Len(ledger) :
        /\ ledger[i].id = t
        /\ ledger[i].status \in {"open", "blocked"}
        /\ \A j \in (i + 1) .. Len(ledger) : ledger[j].id # t

WorkLeft == scratchPending \/ \E t \in TaskIds : LatestIsOpen(t)

C22_NoCompletionWhilePending ==
    /\ [](lreason = "CompletionPromiseMet" => ~WorkLeft)
    /\ [][(completed' = completed + 1 /\ WorkLeft) =>
            /\ lreason' # "CompletionPromiseMet"
            /\ lstate' # "Finalizing"
            /\ lstate = "Completing" => lstate' \in {"Iterating", "Aborting"}]_vars

C22_Witness ==
    /\ lstate = "Exited"
    /\ lreason = "CompletionPromiseMet"
    /\ hist = <<TRUE, TRUE, TRUE, TRUE>>
    /\ ledger = <<TaskRecord(1, "blocked"), TaskRecord(1, "closed")>>

\* C23: when several safeguard conditions hold at the end of one iteration,
\* the reason is that of the first in the order stop marker, restart marker,
\* max iterations, max runtime, idle timeout: both markers give StopRequested,
\* a restart marker at the last allowed iteration gives RestartRequested.
C23_SafeguardOrder ==
    [][\A ok \in BOOLEAN, promise \in BOOLEAN, interact \in BOOLEAN,
          pending \in BOOLEAN, runtimeUp \in BOOLEAN, idle \in BOOLEAN,
          jfail \in BOOLEAN :
         EndIteration(ok, promise, interact, pending, runtimeUp, idle, jfail) =>
            /\ stopMarker => lreason' = "StopRequested"
            /\ (~stopMarker /\ restartMarker) => lreason' = "RestartRequested"
            /\ (~stopMarker /\ ~restartMarker /\ iteration >= MaxIterations)
                  => lreason' = "MaxIterations"
            /\ (~stopMarker /\ ~restartMarker /\ iteration < MaxIterations
                  /\ runtimeUp) => lreason' = "MaxRuntime"
            /\ (~stopMarker /\ ~restartMarker /\ iteration < MaxIterations
                  /\ ~runtimeUp /\ idle) => lreason' = "IdleTimeout"
            /\ (stopMarker \/ restartMarker \/ iteration >= MaxIterations
                  \/ runtimeUp \/ idle) => lstate' = "Aborting"]_vars

C23_Witness ==
    /\ lstate = "Exited"
    /\ lreason = "RestartRequested"
    /\ restartMarker
    /\ completed = MaxIterations
    /\ otherCause

\* C24 (as stated): the loop aborts with SubprocessFailed exactly when three
\* consecutive iterations have ended in a subprocess failure; a successful
\* iteration resets the count, fewer than three consecutive failures never
\* abort, and a failed iteration counts as an executed iteration.
FailureCounted(ok) ==
    /\ fails' = IF ok THEN 0 ELSE fails + 1
    /\ iteration' = iteration
    /\ completed' = completed + 1

Subscribed(h, T) ==
    \E pattern \in hatSubs[h] :
        \/ pattern = T
        \/ pattern[1] = "*" /\ pattern[2] = T[2]
        \/ pattern[2] = "*" /\ pattern[1] = T[1]

Published(T) ==
    \/ Publish(T)
    \/ \E h \in Hats : T \in hatPubs[h] /\ HatEmit(h, T)

C25_Original ==
    [][\A T \in RoutedTopics :
         Published(T) =>
            \A h \in Hats :
                queues'[h] = IF Subscribed(h, T) THEN Append(queues[h], T)
                             ELSE queues[h]]_vars

\* C25 (amended): publish(T) changes the queue of no hat without a matching
\* subscription and appends at most one activation to any queue. When the
\* publish is accepted, every matching hat has an activation for T in its
\* queue afterwards: one appended by this publish, except that with
\* coalescing enabled a queue that already holds T is left as it is. When an
\* append would overflow a queue the publish is rejected and enqueues nothing.
C25_Amended ==
    [][\A T \in RoutedTopics :
         Published(T) =>
            /\ \A h \in Hats :
                  /\ ~Subscribed(h, T) => queues'[h] = queues[h]
                  /\ queues'[h] \in {queues[h], Append(queues[h], T)}
            /\ lastPub'.outcome \in {"routed", "rejected"}
            /\ lastPub'.outcome = "routed" =>
                  \A h \in Hats :
                      Subscribed(h, T) =>
                          /\ T \in {queues'[h][i] : i \in 1 .. Len(queues'[h])}
                          /\ queues'[h] = queues[h] =>
                                (coalesce /\ T \in Queued(h))
            /\ lastPub'.outcome = "rejected" =>
                  /\ queues' = queues
                  /\ \E h \in Hats :
                        Subscribed(h, T) /\ Len(queues[h]) = QueueCap]_vars

C25_Witness ==
    /\ hatSubs[1] = {<<"build", "*">>, <<"*", "done">>}
    /\ hatSubs[2] = {TaskStart}
    /\ lastPub = [topic |-> BuildDone, by |-> NoHat, outcome |-> "routed"]
    /\ queues[1] = <<BuildFailed, BuildDone>>
    /\ queues[2] = <<>>

\* C26: an event emitted by a hat with a topic outside its publication set is
\* dropped: no queue changes, the hat's activation goes on, and a topic is
\* routed from a hat only when it is in that hat's publication set.
C26_OutsidePublicationsDropped ==
    /\ [](lastPub.by # NoHat =>
            (lastPub.topic \in hatPubs[lastPub.by] <=> lastPub.outcome # "dropped"))
    /\ [][\A h \in Hats, T \in RoutedTopics :
            (HatEmit(h, T) /\ T \notin hatPubs[h]) =>
                /\ queues' = queues
                /\ active' = h
                /\ lastPub'.outcome = "dropped"]_vars

C26_Witness ==
    /\ hatPubs[1] = {BuildDone}
    /\ hatSubs[2] = {<<"build", "*">>}
    /\ active = 1
    /\ lastPub = [topic |-> BuildFailed, by |-> 1, outcome |-> "dropped"]
    /\ queues[2] = <<BuildDone>>

\* C27: emit rejects a record whose serialized size exceeds the
\* single-write threshold of 4 KiB: the command ends with an error and no
\* journal holds a record above the threshold.
C27_OversizeRejected ==
    /\ \A e \in Emitters :
          (/\ epc[e] # "idle"
           /\ SerializedBytes(Record(eargs[e].topic,
                  EmitPayload(eargs[e].payload, eargs[e].json), e)) > AtomicLimit)
          => epc[e] = "failed"
    /\ \A f \in Files :
          \A i \in 1 .. Len(files[f]) :
              files[f][i].k = "rec" => SerializedBytes(files[f][i]) <= AtomicLimit

\* C28: `run --continue` with no existing scratchpad fails with the
\* `scratchpad not found` error before any side effect: up to the check the
\* process holds no lock, worktree or registry entry, and the failing step
\* leaves the lock, the worktrees, the registry, the scratchpad directory and
\* the loop untouched and ends the process with status 1.
C28_ContinueWithoutScratchpad ==
    /\ [](\A p \in Procs :
            pc[p] \in {"config", "continue_failed"} =>
                /\ ~guard[p]
                /\ lockFile # p
                /\ role[p] = "none"
                /\ wtName[p] = NoName
                /\ ~pendingReg[p])
    /\ [][\A p \in Procs :
            (pc[p] = "config" /\ pc'[p] # "config"
                /\ continueMode[p] /\ ~scratchpadFile) =>
                /\ pc'[p] = "continue_failed"
                /\ exitCode'[p] = 1
                /\ UNCHANGED <<sharedVars, loopVars, scratchpadFile>>]_vars
    /\ [][\A p \in Procs :
            pc'[p] = "continue_failed" =>
                \/ pc[p] = "continue_failed"
                \/ pc[p] = "config" /\ continueMode[p] /\ ~scratchpadFile]_vars

C28_Witness ==
    /\ parallel
    /\ pc[1] = "loop"
    /\ lockFile = 1
    /\ continueMode[2]
    /\ pc[2] = "continue_failed"
    /\ exitCode[2] = 1
    /\ ~scratchpadFile
    /\ worktrees = {}
    /\ registry = {}

\* Key i of the log is a prefix key (Ctrl+A) that arrived in Normal mode: the
\* key before it, if any, was not itself such a prefix key.
RECURSIVE PrefixInNormal(_)
PrefixInNormal(i) ==
    IF i = 0 THEN FALSE
    ELSE /\ keyLog[i].key.code = CharKey("a")
         /\ "CONTROL" \in keyLog[i].key.modifiers
         /\ ~PrefixInNormal(i - 1)

\* C29: from Normal mode the prefix key is consumed, not forwarded, and the
\* key after it is never forwarded: it yields Command(c) when it is a
\* character key Char(c) and Consumed otherwise.
C29_PrefixAndNextKey ==
    \A i \in 1 .. Len(keyLog) :
        PrefixInNormal(i) =>
            /\ keyLog[i].result = Consumed
            /\ i < Len(keyLog) =>
                  /\ keyLog[i + 1].result.kind # "Forward"
                  /\ keyLog[i + 1].result =
                        IF keyLog[i + 1].key.code.kind = "Char"
                        THEN Command(keyLog[i + 1].key.code.c)
                        ELSE Consumed

C29_Witness ==
    /\ Len(keyLog) = 3
    /\ keyLog[1].result = Consumed
    /\ keyLog[2].key = [code |-> CharKey("a"), modifiers |-> {"CONTROL"}]
    /\ keyLog[2].result = Command("a")
    /\ keyLog[3].result = Consumed
    /\ mode = "AwaitingCommand"

\* C30: the router is in command mode for exactly one key: after every key
\* sequence the mode is AwaitingCommand exactly when the last key was a
\* prefix key that arrived in Normal mode, and a key that arrives in Normal
\* mode and is no prefix key is forwarded unchanged, the mode staying Normal.
C30_CommandModeOneKey ==
    /\ mode \in {"Normal", "AwaitingCommand"}
    /\ mode = "AwaitingCommand" <=> PrefixInNormal(Len(keyLog))
    /\ \A i \in 1 .. Len(keyLog) :
          (/\ ~PrefixInNormal(i - 1)
           /\ ~(keyLog[i].key.code = CharKey("a")
                  /\ "CONTROL" \in keyLog[i].key.modifiers))
          => /\ keyLog[i].result = Forward(keyLog[i].key)
             /\ ~PrefixInNormal(i)

C30_Witness ==
    /\ Len(keyLog) = 3
    /\ keyLog[1].result = Consumed
    /\ keyLog[2].key = [code |-> EnterKey, modifiers |-> {}]
    /\ keyLog[2].result = Consumed
    /\ keyLog[3].result = Forward([code |-> CharKey("q"), modifiers |-> {"CONTROL"}])
    /\ mode = "Normal"

\* The hook that was in place before install_panic_hook has printed the panic.
Printed == \E i \in 1 .. Len(hookLog) : hookLog[i][1] = "print"

HookInstalled == panicHook # <<>> /\ Head(panicHook) = "restore"

C39_TerminalRestoredOnReturn ==
    runResult # "none" => (~rawMode /\ ~altScreen)

\* The human.response records among the pieces of the journal that lie
\* before file_pos, in the order of the file.
PassedResponses ==
    LET c == files[EventsPath]
        n == IF filePos < Len(c) THEN filePos ELSE Len(c)
    IN  SelectSeq(SubSeq(c, 1, n),
                  LAMBDA r : r.k = "rec" /\ r.topic = "human.response")

\* C32: what calls of check_for_response on one position have returned is
\* exactly the human.response records in the part of the journal the position
\* has passed, each once and in order, also when a call read the file between
\* the writes of a line.
C32_EachLineOnce ==
    got = [i \in 1 .. Len(PassedResponses) |->
              SomeResponse(PayloadText(PassedResponses[i].payload))]

\* C33: a step of `clean` that removes .ralph/loop.lock is never a --dry-run
\* step and removes a file whose recorded PID is not alive at that step,
\* whatever `run` processes do in between.
C33_CleanRemovesOnlyStale ==
    [][\A c \in Cleaners :
          (cpc[c] = "remove" /\ cpc'[c] # "remove"
             /\ lockFile # NoProc /\ lockFile' = NoProc)
          => (~dryRun[c] /\ ~pid_alive(lockFile))]_vars

\* The workspace of a process that runs, or boots, a loop: the repository
\* root for the primary loop, .worktrees/<id> for a worktree loop.
WorkspaceOf(p) == IF role[p] = "primary" THEN <<"root">> ELSE <<".worktrees", wtName[p]>>

\* C34: two live processes that run loops of the repository never have the
\* same workspace (and with it the same scratchpad path): at most one runs in
\* the repository root, and the worktree loops run in different worktrees,
\* also when they generated their IDs at the same time.
C34_DistinctWorkspaces ==
    \A p \in Procs, q \in Procs :
        (/\ p # q
         /\ role[p] # "none" /\ pid_alive(p)
         /\ role[q] # "none" /\ pid_alive(q)) => WorkspaceOf(p) # WorkspaceOf(q)

\* d is dir or one of its ancestors.
IsAncestorOrSelf(d, dir) == Len(d) <= Len(dir) /\ SubSeq(dir, 1, Len(d)) = d

\* The directories with a `.git` at or above dir.
GitAbove(dir) == {d \in gitAt : IsAncestorOrSelf(d, dir)}

\* .ralph/loop.lock of a workspace root.
LockPathOf(root) == root \o <<".ralph", "loop.lock">>

\* C35: find_workspace_root returns the nearest directory at or above the
\* current directory that holds a `.git`, and the current directory when none
\* does; two invocations from directories whose nearest such directory is the
\* same use the same workspace root and the same lock file.
C35_NearestGitAncestor ==
    /\ \A i \in Invocations :
          wsRoot[i] # NoPath =>
             IF GitAbove(cwd[i]) = {} THEN wsRoot[i] = cwd[i]
             ELSE /\ wsRoot[i] \in GitAbove(cwd[i])
                  /\ \A d \in GitAbove(cwd[i]) : Len(d) <= Len(wsRoot[i])
    /\ \A i \in Invocations, j \in Invocations :
          (/\ wsRoot[i] # NoPath /\ wsRoot[j] # NoPath
           /\ \E g \in gitAt :
                 /\ IsAncestorOrSelf(g, cwd[i]) /\ IsAncestorOrSelf(g, cwd[j])
                 /\ \A d \in GitAbove(cwd[i]) \cup GitAbove(cwd[j]) :
                       Len(d) <= Len(g))
          => LockPathOf(wsRoot[i]) = LockPathOf(wsRoot[j])

\* Two invocations from different subdirectories of one repository, below a
\* directory that holds another `.git`: both resolve to the repository.
C35_Witness ==
    /\ cwd[1] # cwd[2]
    /\ Len(cwd[1]) = 2 /\ Len(cwd[2]) = 2
    /\ gitAt = {<<>>, Parent(cwd[1])}
    /\ wsRoot[1] = Parent(cwd[1])
    /\ wsRoot[2] = wsRoot[1]

\* What `run --dry-run` must leave alone: the lock file, the worktrees, the
\* registry, the scratchpad directory and the scratchpad, the journal, and
\* the iteration count of the loop.
DryFrame ==
    /\ lockFile' = lockFile
    /\ worktrees' = worktrees
    /\ registry' = registry
    /\ agentDir' = agentDir
    /\ scratchpadFile' = scratchpadFile
    /\ files' = files
    /\ iteration' = iteration

\* C36 (as stated): no step of a `run --dry-run` process changes the lock, the
\* scratchpad directory, the worktrees, the registry, the journal or the
\* iteration count, and the process returns success.
C36_Original ==
    [][\A p \in Procs :
          (runDry'[p] /\ pc'[p] # pc[p]) =>
              /\ DryFrame
              /\ pc'[p] \in Dead => (pc'[p] = "exited" /\ exitCode'[p] = 0)]_vars

\* C36 (amended): no step of a `run --dry-run` process changes the shared
\* state; the process returns success once it reaches the dry-run branch, also
\* when the preflight report has failures; with --continue and no scratchpad
\* it returns the error of the continue check, which comes first.
C36_Amended ==
    [][\A p \in Procs :
          (runDry'[p] /\ pc'[p] # pc[p]) =>
              /\ DryFrame
              /\ pc'[p] \in Dead =>
                    \/ pc[p] = "start" /\ pc'[p] = "exited" /\ exitCode'[p] = 0
                    \/ /\ pc[p] = "config" /\ continueMode[p] /\ ~scratchpadFile
                       /\ pc'[p] = "continue_failed" /\ exitCode'[p] = 1
              /\ (pc[p] = "config" /\ ~(continueMode[p] /\ ~scratchpadFile)) =>
                    pc'[p] = "start"]_vars

\* A `run --dry-run` has returned success next to a running primary loop
\* whose lock, scratchpad directory and scratchpad are in place.
C36_Witness ==
    \E p \in Procs, q \in Procs :
        /\ runDry[p] /\ pc[p] = "exited" /\ exitCode[p] = 0
        /\ ~runDry[q] /\ pc[q] = "loop" /\ lockFile = q
        /\ agentDir /\ scratchpadFile

\* C37: when every record of the journal was appended after send_question
\* returned, a wait that returns None has seen no human.response record in
\* the journal up to its deadline: an answer that arrived before the timeout,
\* before or after the wait began, is returned.
C37_AnswerNotLost ==
    (qres = "ok" /\ wpc = "returned" /\ wresult = NoResponse) =>
        \A i \in 1 .. wlen :
            ~(/\ files[EventsPath][i].k = "rec"
              /\ files[EventsPath][i].topic = "human.response")

\* C38: when `run` fails at a boot step after it created its worktree (the
\* symlinks and the context file, the directories, the preflight, the
\* registration), neither the worktree nor a registry entry for it is left.
C38_FailedBootLeavesNothing ==
    [][\A p \in Procs :
          (/\ role[p] = "worktree"
           /\ pc[p] \in {"setup", "dirs", "preflight", "register"}
           /\ pc'[p] \in {"failed", "preflight_failed"})
          => (wtName[p] \notin worktrees' /\ wtName[p] \notin registry')]_vars

\* The arguments of an `emit --json` whose payload is not empty and not JSON.
BadJson(a) == a.json /\ a.payload # "" /\ ~IsJson(a.payload)

\* C40: the step in which an `emit --json` with a non-empty payload that is
\* not JSON starts is the step in which it fails, and that step appends no
\* line and creates no events file and no parent directory; the failed emit
\* takes no further step.
C40_InvalidJsonTouchesNothing ==
    [][\A e \in Emitters :
          /\ (epc[e] = "idle" /\ epc'[e] # "idle" /\ BadJson(eargs'[e])) =>
                /\ epc'[e] = "failed"
                /\ files' = files
                /\ jdir' = jdir
                /\ jfile' = jfile
                /\ opened' = opened
          /\ (epc[e] = "failed" /\ BadJson(eargs[e])) =>
                (epc'[e] = "failed" /\ e \notin opened')]_vars

\* `emit --json hello` has failed in a repository that still has no events
\* file and no directory for one.
C40_Witness ==
    \E e \in Emitters :
        /\ epc[e] = "failed"
        /\ eargs[e].json /\ eargs[e].payload = "hello"
        /\ jdir = {} /\ jfile = {}
        /\ \A f \in Files : files[f] = <<>>

====
